---- MODULE Spec2Model ----
(***************************************************************************)
(* A state-machine model of the TruePeopleSearch batch scraper             *)
(* (src/scraper.py; src/api.py carries the same _setup_driver and          *)
(* _make_request): the browser session build with its retry loop, the      *)
(* fetch engine with pacing, challenge polling, backoff and session          *)
(* rebuild, the form-driven address search, and the batch loop of main     *)
(* with its partial and final output.                                      *)
(*                                                                         *)
(* The browser, the site and the file system are the environment: every    *)
(* call into them has its outcome drawn from the outcomes the call can     *)
(* have (return, raise, time out).  Python's call stack is modelled by one *)
(* position variable per function: mpc (main), spc (search_by_address),    *)
(* fpc (_make_request), bpc (_setup_driver).  A callee runs while its      *)
(* position is neither "idle" nor a final one; the caller's next step      *)
(* consumes the final position and sets it back to "idle".                 *)
(***************************************************************************)
EXTENDS Integers, Sequences, FiniteSets, TLC

\* ------------------------------------------------------------------ bounds
\* Most owners the input file yields.
MaxOwners == 2

\* Largest --batch-size tried.
MaxBatchSize == 2

\* Most person cards a listing page holds.
MaxCards == 2

\* Largest max_results a request of the search service gives.
MaxResults == 2

\* Most query strings a request holds under one search type.
MaxQueries == 1

\* ------------------------------------------------------- program constants
\* TruePeopleSearchScraper.__init__ defaults.
min_delay == 5

max_delay == 10

max_retries == 3

\* _setup_driver: max_retries = 3 of the driver construction loop.
setup_max_retries == 3

\* _make_request: max_cf_retries = 6 polls of the challenge URL.
max_cf_retries == 6

\* _make_request: time.sleep(5) before and between the challenge polls.
cf_sleep == 5

\* _make_request: time.sleep(2) for deferred content.
settle_sleep == 2

\* search_by_address: range(3) of the typing, click and result-wait loops.
form_retries == 3

\* search_by_address: wait = WebDriverWait(self.driver, 20) for the form
\* elements.
form_wait == 20

\* The wait of the form elements reused for the result markers.
results_wait_as_form == form_wait

\* search_by_address: WebDriverWait(self.driver, 15) for the result markers.
results_wait == 15

\* search_by_address: time.sleep(2) after a wait for the markers that timed out.
results_pause == 2

\* random.uniform(a, b) is modelled by the integers of a..b.
Uniform(a, b) == a..b

VARIABLES
    \* main
    mpc,          \* position in main
    owners,       \* the list read_input_file returned: owner i has Row Index owners[i]
    batch_size,   \* main's batch_size argument
    done,         \* owners of the list whose loop iteration has ended
    cur,          \* the ScrapingResult of the owner in progress (NoResult outside)
    results,      \* main's results list
    partialOut,   \* rows of <output>.partial as last written (<<>> = never written)
    finalOut,     \* rows of <output> as last written
    finalWrites,  \* times the final output was written
    pending,      \* exception travelling through main's finally block
    fate,         \* per owner, what happened to it: "Pending", "InProgress",
                  \* "Extracted", "NotFound" or "Failed" (not a program variable)
    raisedAt,     \* owners at which an exception reached the try block of the
                  \* loop body (not a program variable)
    fetchFailedAt, \* owners whose profile fetch returned None (not a program
                  \* variable)
    batchSleeps,  \* times main slept between two batches (not a program variable)
    destroys,     \* calls of the scraper's __del__ so far (not a program variable)
    \* search_by_address
    spc,          \* position in search_by_address
    stry,         \* iterations done of the loop the search is in
    addrOk,       \* the address field holds owner.mailing_address
    locOk,        \* the city/state field holds citystatezip_value
    clicked,      \* search_button.click() went through
    sret,         \* the value returned: "url" or "None"
    swhy,         \* why: "fetch", "form", "nomatch" or "found" (not a program variable)
    swait,        \* how the last WebDriverWait of the search ended: "-" (none
                  \* yet), "ok", "timeout" or "raise" (not a program variable)
    swaited,      \* seconds spent so far in waits for the result markers that
                  \* timed out and in the pauses after them (not a program
                  \* variable)
    \* _make_request
    fpc,          \* position in _make_request
    attempt,      \* the loop variable of "for attempt in range(max_retries)"
    fret,         \* the value returned: "markup" or "None"
    navs,         \* navigations (driver.get) of this call
    failed,       \* attempts of this call that ended in an except clause
    prevFail,     \* how the attempt before this one failed, until the navigation
    backedOff,    \* the error backoff was slept since that failure
    rebuilt,      \* self.driver was replaced since that failure
    cfWaited,     \* seconds slept in challenge handling in this attempt
    cfRetry,      \* polls of this attempt that slept
    cfChecks,     \* reads of the URL in this attempt
    cfAll,        \* every read of this attempt indicated a challenge
    \* _setup_driver
    bpc,          \* position in _setup_driver
    battempt,     \* the loop variable of "for attempt in range(max_retries)"
    localDriver,  \* the local variable driver: "unbound", "live" or "quit"
    btries,       \* webdriver.Chrome(...) calls of this build
    bfails,       \* attempts of this build that reached the except clause
    bopen,        \* sessions this build constructed and has not quit
    berr,         \* where the build's exception came from: "prepare" or "attempts"
    \* the session and the clock
    driver,       \* what self.driver refers to: "unset", "live" or "quit"
    slept         \* the time.sleep of the step that led here (NoSleep: none)

mainVars == <<mpc, owners, batch_size, done, cur, results, partialOut, finalOut,
              finalWrites, pending, fate, raisedAt, fetchFailedAt,
              batchSleeps, destroys>>

searchVars == <<spc, stry, addrOk, locOk, clicked, sret, swhy, swait, swaited>>

fetchVars == <<fpc, attempt, fret, navs, failed, prevFail, backedOff, rebuilt,
               cfWaited, cfRetry, cfChecks, cfAll>>

buildVars == <<bpc, battempt, localDriver, btries, bfails, bopen, berr>>

VARIABLES
    \* the search service of src/api.py
    api_instance,    \* the global api_instance: None or "api"
    got_first,       \* Flask ran the before_first_request functions
    instances,       \* TruePeopleSearchAPI objects constructed (not a program variable)
    hpc,             \* per handler thread, its position; at the end "done"
                     \* (response 200), "rejected" (400) or "failed" (500)
    hmax,            \* per handler, max_results of its request
    hcards,          \* per handler, person_cards of search_by_name
    hi,              \* per handler, the card of the loop (1-based)
    hres,            \* per handler, the results list of search_by_name
    hret,            \* per handler, what search_by_name returned (<<>> before)
    hdata,           \* per handler, the keys of the request body read so far:
                     \* how many queries each list holds (0: absent or empty)
    hk,              \* per handler, the query of the loop over data['name'] (1-based)
    hbody,           \* per handler, the results dict: its keys and name_results
    hphone,          \* per handler, the phone query read from data['phone_number']
    hurl,            \* per handler, the URL of the last search request built
    herr             \* per handler, the exception that ended it: "none",
                     \* "session", "fetch" or "AttributeError" (not a program
                     \* variable)

VARIABLES
    \* one call of a function that only computes: to_dict, the URL of
    \* search_by_name, the parsing of a profile page
    fcall,             \* the function called ("none" before the call)
    farg,            \* its argument
    fval             \* what it returned

\* The search service of src/api.py.
apiVars == <<api_instance, got_first, instances, hpc, hmax, hcards, hi, hres, hret,
             hdata, hk, hbody, hphone, hurl, herr>>

\* The single call of a computing function.
fnVars == <<fcall, farg, fval>>

\* Everything of the batch program of src/scraper.py.
batchVars == <<mainVars, searchVars, fetchVars, buildVars, driver, slept>>

vars == <<mainVars, searchVars, fetchVars, buildVars, apiVars, fnVars, driver, slept>>

NoSleep == [kind |-> "none", secs |-> 0]

Sleep(k, s) == [kind |-> k, secs |-> s]

\* ---------------------------------------------------------------- session
\* A quit that marks the session quit whatever it was, a session never built
\* included.
Quit_marks_unbuilt(d) == "quit"

\* driver.quit(): the session is released; quitting twice changes nothing.
\* Every caller wraps the call in try/except-pass, so a raise has no effect.
Quit(d) == IF d = "live" THEN "quit" ELSE d

\* ========================================================== _setup_driver
\* Entering _setup_driver: no local is bound yet.
setup_driver_call ==
    /\ bpc' = "prepare"
    /\ battempt' = 0
    /\ localDriver' = "unbound"
    /\ btries' = 0
    /\ bfails' = 0
    /\ bopen' = 0
    /\ berr' = "none"

\* The caller has taken _setup_driver's result.
setup_driver_reset ==
    /\ bpc' = "idle"
    /\ battempt' = 0
    /\ localDriver' = "unbound"
    /\ btries' = 0
    /\ bfails' = 0
    /\ bopen' = 0
    /\ berr' = "none"

\* Whether the except clause of attempt a re-raises (the last attempt).
setup_driver_gives_up(a) == a = setup_max_retries - 1

\* The build backoff computed from the 0-based loop variable.
setup_driver_backoff_zero_based(a) == a * 2

\* The sleep after failed attempt a (0-based): (attempt + 1) * 2.
setup_driver_backoff(a) == (a + 1) * 2

\* The local variable driver after the cleanup of a failed attempt:
\* "if 'driver' in locals(): driver.quit()".
setup_driver_cleanup(d) == IF d = "unbound" THEN "unbound" ELSE Quit(d)

\* Lines 90-149: environment, Options, user agent, Service(...install()).
\* A raise here reaches the outer except, which re-raises.
setup_driver_prepare ==
    /\ bpc = "prepare"
    /\ \E ok \in BOOLEAN :
          IF ok THEN bpc' = "construct" /\ berr' = berr
                ELSE bpc' = "raised" /\ berr' = "prepare"
    /\ UNCHANGED <<battempt, localDriver, btries, bfails, bopen>>
    /\ UNCHANGED <<mainVars, searchVars, fetchVars, driver>>
    /\ slept' = NoSleep
    /\ UNCHANGED <<apiVars, fnVars>>

\* driver = webdriver.Chrome(service=service, options=options)
setup_driver_construct ==
    /\ bpc = "construct"
    /\ btries' = btries + 1
    /\ \E ok \in BOOLEAN :
          IF ok THEN /\ localDriver' = "live"
                     /\ bopen' = bopen + 1
                     /\ bpc' = "probe"
                ELSE /\ UNCHANGED <<localDriver, bopen>>
                     /\ bpc' = "except"
    /\ UNCHANGED <<battempt, bfails, berr>>
    /\ UNCHANGED <<mainVars, searchVars, fetchVars, driver>>
    /\ slept' = NoSleep
    /\ UNCHANGED <<apiVars, fnVars>>

\* set_page_load_timeout, implicitly_wait, set_window_size, and the
\* liveness probe driver.current_url; then "return driver".
setup_driver_probe ==
    /\ bpc = "probe"
    /\ \E ok \in BOOLEAN :
          bpc' = IF ok THEN "returned" ELSE "except"
    /\ UNCHANGED <<battempt, localDriver, btries, bfails, bopen, berr>>
    /\ UNCHANGED <<mainVars, searchVars, fetchVars, driver>>
    /\ slept' = NoSleep
    /\ UNCHANGED <<apiVars, fnVars>>

\* except Exception: re-raise on the last attempt, else clean up the failed
\* driver (the quit and its try/except-pass are one step).
setup_driver_except ==
    /\ bpc = "except"
    /\ bfails' = bfails + 1
    /\ IF setup_driver_gives_up(battempt)
          THEN /\ bpc' = "raised"
               /\ berr' = "attempts"
               /\ UNCHANGED <<localDriver, bopen>>
          ELSE /\ bpc' = "sleep"
               /\ localDriver' = setup_driver_cleanup(localDriver)
               /\ bopen' = IF localDriver = "live" THEN bopen - 1 ELSE bopen
               /\ berr' = berr
    /\ UNCHANGED <<battempt, btries>>
    /\ UNCHANGED <<mainVars, searchVars, fetchVars, driver>>
    /\ slept' = NoSleep
    /\ UNCHANGED <<apiVars, fnVars>>

\* time.sleep((attempt + 1) * 2), then the next iteration of the loop.
setup_driver_sleep ==
    /\ bpc = "sleep"
    /\ slept' = Sleep("build", setup_driver_backoff(battempt))
    /\ battempt' = battempt + 1
    /\ bpc' = "construct"
    /\ UNCHANGED <<localDriver, btries, bfails, bopen, berr>>
    /\ UNCHANGED <<mainVars, searchVars, fetchVars, driver>>
    /\ UNCHANGED <<apiVars, fnVars>>

setup_driver ==
    \/ setup_driver_prepare
    \/ setup_driver_construct
    \/ setup_driver_probe
    \/ setup_driver_except
    \/ setup_driver_sleep

\* ========================================================== _make_request
\* Entering _make_request: the for loop starts at attempt 0.
make_request_call ==
    /\ fpc' = "delay"
    /\ attempt' = 0
    /\ fret' = "-"
    /\ navs' = 0
    /\ failed' = 0
    /\ prevFail' = "none"
    /\ backedOff' = FALSE
    /\ rebuilt' = FALSE
    /\ cfWaited' = 0
    /\ cfRetry' = 0
    /\ cfChecks' = 0
    /\ cfAll' = TRUE

\* The caller has taken _make_request's result.
make_request_reset ==
    /\ fpc' = "idle"
    /\ attempt' = 0
    /\ fret' = "-"
    /\ navs' = 0
    /\ failed' = 0
    /\ prevFail' = "none"
    /\ backedOff' = FALSE
    /\ rebuilt' = FALSE
    /\ cfWaited' = 0
    /\ cfRetry' = 0
    /\ cfChecks' = 0
    /\ cfAll' = TRUE

FetchEnded == fpc \in {"returned", "raised"}

\* One attempt too many: the test against max_retries instead of max_retries - 1.
make_request_last_off_by_one(a) == a = max_retries

\* "if attempt == self.max_retries - 1: break" of both except clauses.
make_request_last(a) == a = max_retries - 1

\* A retry that goes straight to the navigation.
make_request_loop_top_no_delay == "get"

\* Where "continue" and the end of the outer except clause lead: the top of
\* the loop body, whose first statement is self._add_delay().
make_request_loop_top == "delay"

\* The backoff computed from the 0-based loop variable.
make_request_wait_time_zero_based(a, r) == a * 3 + r

\* wait_time = (attempt + 1) * 3 + random.uniform(1, 3)
make_request_wait_time(a, r) == (a + 1) * 3 + r

\* One poll too many.
make_request_polls_over_late(r) == r = max_cf_retries + 1

\* Whether the challenge poll loop "for retry in range(max_cf_retries)" is over
\* after r iterations that slept.
make_request_polls_over(r) == r = max_cf_retries

\* One read of "challenge/captcha in self.driver.current_url": the URL is
\* clear, it indicates a challenge, or the command raises (a TimeoutException
\* or another WebDriverException).
UrlChecks == {"clear", "challenge", "timeout", "raise"}

\* What a check of the URL does to the challenge bookkeeping.
cf_checked(c) ==
    /\ cfChecks' = cfChecks + 1
    /\ cfAll' = (cfAll /\ c = "challenge")

\* self._add_delay(): time.sleep(random.uniform(min_delay, max_delay))
make_request_add_delay ==
    /\ fpc = "delay"
    /\ \E d \in Uniform(min_delay, max_delay) : slept' = Sleep("pace", d)
    /\ fpc' = "get"
    /\ cfWaited' = 0
    /\ cfRetry' = 0
    /\ cfChecks' = 0
    /\ cfAll' = TRUE
    /\ UNCHANGED <<attempt, fret, navs, failed, prevFail, backedOff, rebuilt>>
    /\ UNCHANGED <<mainVars, searchVars, buildVars, driver>>
    /\ UNCHANGED <<apiVars, fnVars>>

\* self.driver.get(full_url): a navigation; on a session that was quit it
\* can only raise.
make_request_get ==
    /\ fpc = "get"
    /\ navs' = navs + 1
    /\ slept' = NoSleep
    /\ prevFail' = "none"
    /\ backedOff' = FALSE
    /\ rebuilt' = FALSE
    /\ \E ok \in BOOLEAN :
          /\ ok => driver = "live"
          /\ fpc' = IF ok THEN "wait_body" ELSE "except"
    /\ UNCHANGED <<attempt, fret, failed, cfWaited, cfRetry, cfChecks, cfAll>>
    /\ UNCHANGED <<mainVars, searchVars, buildVars, driver>>
    /\ UNCHANGED <<apiVars, fnVars>>

\* WebDriverWait(self.driver, 15).until(presence of body)
make_request_wait_body ==
    /\ fpc = "wait_body"
    /\ \E o \in {"ok", "timeout", "raise"} :
          fpc' = CASE o = "ok" -> "cf_detect"
                   [] o = "timeout" -> "timeout"
                   [] OTHER -> "except"
    /\ UNCHANGED <<attempt, fret, navs, failed, prevFail, backedOff, rebuilt,
                   cfWaited, cfRetry, cfChecks, cfAll>>
    /\ UNCHANGED <<mainVars, searchVars, buildVars, driver>>
    /\ slept' = NoSleep
    /\ UNCHANGED <<apiVars, fnVars>>

\* if "challenge" in current_url or "captcha" in current_url: ... (line 210)
make_request_cf_detect ==
    /\ fpc = "cf_detect"
    /\ \E c \in UrlChecks :
          /\ cf_checked(c)
          /\ fpc' = CASE c = "clear" -> "settle"
                      [] c = "challenge" -> "cf_sleep"
                      [] c = "timeout" -> "timeout"
                      [] OTHER -> "except"
    /\ UNCHANGED <<attempt, fret, navs, failed, prevFail, backedOff, rebuilt,
                   cfWaited, cfRetry>>
    /\ UNCHANGED <<mainVars, searchVars, buildVars, driver>>
    /\ slept' = NoSleep
    /\ UNCHANGED <<apiVars, fnVars>>

\* time.sleep(5): the initial wait for the challenge page (line 214).
make_request_cf_sleep ==
    /\ fpc = "cf_sleep"
    /\ slept' = Sleep("challenge", cf_sleep)
    /\ cfWaited' = cfWaited + cf_sleep
    /\ fpc' = "cf_poll"
    /\ UNCHANGED <<attempt, fret, navs, failed, prevFail, backedOff, rebuilt,
                   cfRetry, cfChecks, cfAll>>
    /\ UNCHANGED <<mainVars, searchVars, buildVars, driver>>
    /\ UNCHANGED <<apiVars, fnVars>>

\* One iteration of "for retry in range(max_cf_retries)": break when the URL
\* is clear, else time.sleep(5) and go round (lines 218-223).
make_request_cf_poll ==
    /\ fpc = "cf_poll"
    /\ \E c \in UrlChecks :
          /\ cf_checked(c)
          /\ IF c = "challenge"
                THEN /\ slept' = Sleep("challenge", cf_sleep)
                     /\ cfWaited' = cfWaited + cf_sleep
                     /\ cfRetry' = cfRetry + 1
                     /\ fpc' = IF make_request_polls_over(cfRetry + 1)
                                  THEN "cf_verify" ELSE "cf_poll"
                ELSE /\ slept' = NoSleep
                     /\ UNCHANGED <<cfWaited, cfRetry>>
                     /\ fpc' = CASE c = "clear" -> "cf_verify"
                                 [] c = "timeout" -> "timeout"
                                 [] OTHER -> "except"
    /\ UNCHANGED <<attempt, fret, navs, failed, prevFail, backedOff, rebuilt>>
    /\ UNCHANGED <<mainVars, searchVars, buildVars, driver>>
    /\ UNCHANGED <<apiVars, fnVars>>

\* A verification that treats a challenge still in place as a failed attempt.
make_request_cf_verify_retries ==
    /\ fpc = "cf_verify"
    /\ \E c \in UrlChecks :
          /\ cf_checked(c)
          /\ fpc' = CASE c = "clear" -> "settle"
                      [] c = "timeout" -> "timeout"
                      [] OTHER -> "except"
    /\ UNCHANGED <<attempt, fret, navs, failed, prevFail, backedOff, rebuilt,
                   cfWaited, cfRetry>>
    /\ UNCHANGED <<mainVars, searchVars, buildVars, driver>>
    /\ slept' = NoSleep
    /\ UNCHANGED <<apiVars, fnVars>>

\* "Verify we're past CloudFlare": still a challenge => return None (226-228).
make_request_cf_verify ==
    /\ fpc = "cf_verify"
    /\ \E c \in UrlChecks :
          /\ cf_checked(c)
          /\ fpc' = CASE c = "clear" -> "settle"
                      [] c = "challenge" -> "returned"
                      [] c = "timeout" -> "timeout"
                      [] OTHER -> "except"
          /\ fret' = IF c = "challenge" THEN "None" ELSE fret
    /\ UNCHANGED <<attempt, navs, failed, prevFail, backedOff, rebuilt,
                   cfWaited, cfRetry>>
    /\ UNCHANGED <<mainVars, searchVars, buildVars, driver>>
    /\ slept' = NoSleep
    /\ UNCHANGED <<apiVars, fnVars>>

\* A timeout that is retried without using up an attempt.
make_request_timeout_free_retry ==
    /\ fpc = "timeout"
    /\ failed' = failed + 1
    /\ fpc' = make_request_loop_top
    /\ prevFail' = "timeout"
    /\ UNCHANGED <<attempt, fret, navs, backedOff, rebuilt>>
    /\ cfWaited' = 0
    /\ cfRetry' = 0
    /\ cfChecks' = 0
    /\ cfAll' = TRUE
    /\ UNCHANGED <<mainVars, searchVars, buildVars, driver>>
    /\ slept' = NoSleep
    /\ UNCHANGED <<apiVars, fnVars>>

\* except TimeoutException: break on the last attempt (then "return None"),
\* else continue (lines 230-234).
make_request_timeout ==
    /\ fpc = "timeout"
    /\ failed' = failed + 1
    /\ IF make_request_last(attempt)
          THEN /\ fpc' = "returned"
               /\ fret' = "None"
               /\ UNCHANGED <<attempt, prevFail>>
          ELSE /\ fpc' = make_request_loop_top
               /\ attempt' = attempt + 1
               /\ prevFail' = "timeout"
               /\ fret' = fret
    /\ UNCHANGED <<navs, backedOff, rebuilt>>
    /\ cfWaited' = 0
    /\ cfRetry' = 0
    /\ cfChecks' = 0
    /\ cfAll' = TRUE
    /\ UNCHANGED <<mainVars, searchVars, buildVars, driver>>
    /\ slept' = NoSleep
    /\ UNCHANGED <<apiVars, fnVars>>

\* time.sleep(2): extra time for JS (line 237).
make_request_settle ==
    /\ fpc = "settle"
    /\ slept' = Sleep("settle", settle_sleep)
    /\ fpc' = "source"
    /\ UNCHANGED <<attempt, fret, navs, failed, prevFail, backedOff, rebuilt,
                   cfWaited, cfRetry, cfChecks, cfAll>>
    /\ UNCHANGED <<mainVars, searchVars, buildVars, driver>>
    /\ UNCHANGED <<apiVars, fnVars>>

\* return self.driver.page_source (line 239)
make_request_source ==
    /\ fpc = "source"
    /\ \E ok \in BOOLEAN :
          /\ fpc' = IF ok THEN "returned" ELSE "except"
          /\ fret' = IF ok THEN "markup" ELSE fret
    /\ UNCHANGED <<attempt, navs, failed, prevFail, backedOff, rebuilt,
                   cfWaited, cfRetry, cfChecks, cfAll>>
    /\ UNCHANGED <<mainVars, searchVars, buildVars, driver>>
    /\ slept' = NoSleep
    /\ UNCHANGED <<apiVars, fnVars>>

\* except Exception: break on the last attempt (then "return None"), else
\* sleep wait_time (lines 241-248).
make_request_except ==
    /\ fpc = "except"
    /\ failed' = failed + 1
    /\ IF make_request_last(attempt)
          THEN /\ fpc' = "returned"
               /\ fret' = "None"
               /\ UNCHANGED <<prevFail, backedOff>>
               /\ slept' = NoSleep
          ELSE /\ fpc' = "quit"
               /\ prevFail' = "exception"
               /\ \E r \in Uniform(1, 3) :
                     slept' = Sleep("backoff", make_request_wait_time(attempt, r))
               /\ backedOff' = TRUE
               /\ fret' = fret
    /\ UNCHANGED <<attempt, navs, rebuilt>>
    /\ cfWaited' = 0
    /\ cfRetry' = 0
    /\ cfChecks' = 0
    /\ cfAll' = TRUE
    /\ UNCHANGED <<mainVars, searchVars, buildVars, driver>>
    /\ UNCHANGED <<apiVars, fnVars>>

\* "Restart driver on errors": self.driver.quit() under try/except-pass, then
\* the call of self._setup_driver() (lines 250-255).
make_request_quit ==
    /\ fpc = "quit"
    /\ driver' = Quit(driver)
    /\ fpc' = "rebuild"
    /\ setup_driver_call
    /\ UNCHANGED <<attempt, fret, navs, failed, prevFail, backedOff, rebuilt,
                   cfWaited, cfRetry, cfChecks, cfAll>>
    /\ UNCHANGED <<mainVars, searchVars>>
    /\ slept' = NoSleep
    /\ UNCHANGED <<apiVars, fnVars>>

\* self.driver = self._setup_driver() (line 255): the assignment when the
\* build returned; when it raised, the exception leaves the except clause and
\* _make_request.
make_request_rebuild ==
    /\ fpc = "rebuild"
    /\ bpc \in {"returned", "raised"}
    /\ IF bpc = "returned"
          THEN /\ driver' = "live"
               /\ rebuilt' = TRUE
               /\ attempt' = attempt + 1
               /\ fpc' = make_request_loop_top
          ELSE /\ fpc' = "raised"
               /\ UNCHANGED <<driver, rebuilt, attempt>>
    /\ setup_driver_reset
    /\ UNCHANGED <<fret, navs, failed, prevFail, backedOff,
                   cfWaited, cfRetry, cfChecks, cfAll>>
    /\ UNCHANGED <<mainVars, searchVars>>
    /\ slept' = NoSleep
    /\ UNCHANGED <<apiVars, fnVars>>

make_request ==
    \/ make_request_add_delay
    \/ make_request_get
    \/ make_request_wait_body
    \/ make_request_cf_detect
    \/ make_request_cf_sleep
    \/ make_request_cf_poll
    \/ make_request_cf_verify
    \/ make_request_timeout
    \/ make_request_settle
    \/ make_request_source
    \/ make_request_except
    \/ make_request_quit
    \/ make_request_rebuild

\* ====================================================== search_by_address
\* Entering search_by_address: html = self._make_request(self.BASE_URL).
search_by_address_call ==
    /\ spc' = "home"
    /\ stry' = 0
    /\ addrOk' = FALSE
    /\ locOk' = FALSE
    /\ clicked' = FALSE
    /\ sret' = "-"
    /\ swhy' = "-"
    /\ swait' = "-"
    /\ swaited' = 0
    /\ make_request_call

\* The caller has taken search_by_address's result.
search_by_address_reset ==
    /\ spc' = "idle"
    /\ stry' = 0
    /\ addrOk' = FALSE
    /\ locOk' = FALSE
    /\ clicked' = FALSE
    /\ sret' = "-"
    /\ swhy' = "-"
    /\ swait' = "-"
    /\ swaited' = 0

SearchEnded == spc \in {"returned", "raised"}

\* Whether iteration t (0-based) is the last of a "for _ in range(3)" loop.
search_last_try(t) == t = form_retries - 1

\* "if not html: return None" (lines 269-271); an exception of _make_request
\* is outside the try block and leaves search_by_address.
search_by_address_home ==
    /\ spc = "home"
    /\ FetchEnded
    /\ IF fpc = "raised"
          THEN spc' = "raised" /\ UNCHANGED <<sret, swhy>>
          ELSE IF fret = "None"
                  THEN spc' = "returned" /\ sret' = "None" /\ swhy' = "fetch"
                  ELSE spc' = "wait_form" /\ UNCHANGED <<sret, swhy>>
    /\ make_request_reset
    /\ UNCHANGED <<stry, addrOk, locOk, clicked, swait, swaited>>
    /\ UNCHANGED <<mainVars, buildVars, driver>>
    /\ slept' = NoSleep
    /\ UNCHANGED <<apiVars, fnVars>>

\* How a WebDriverWait(...).until(...) ends: the condition holds, the wait
\* times out (TimeoutException), or a command of the poll raises.
WaitOutcomes == {"ok", "timeout", "raise"}

\* A wait for the form outside the try block: its TimeoutException leaves
\* search_by_address.
search_by_address_wait_form_unguarded ==
    /\ spc = "wait_form"
    /\ \E o \in WaitOutcomes :
          /\ swait' = o
          /\ CASE o = "ok" -> spc' = "fill_addr" /\ slept' = Sleep("form", 2)
               [] o = "timeout" -> spc' = "raised" /\ slept' = NoSleep
               [] OTHER -> spc' = "error" /\ slept' = NoSleep
    /\ UNCHANGED <<stry, addrOk, locOk, clicked, sret, swhy, swaited>>
    /\ UNCHANGED <<mainVars, fetchVars, buildVars, driver>>
    /\ UNCHANGED <<apiVars, fnVars>>

\* The three wait.until(element_to_be_clickable) of at most 20 s each, then
\* time.sleep(2) (lines 276-294).  A timeout or any other exception reaches
\* "except Exception" of line 351.
search_by_address_wait_form ==
    /\ spc = "wait_form"
    /\ \E o \in WaitOutcomes :
          /\ swait' = o
          /\ IF o = "ok" THEN spc' = "fill_addr" /\ slept' = Sleep("form", 2)
                         ELSE spc' = "error" /\ slept' = NoSleep
    /\ UNCHANGED <<stry, addrOk, locOk, clicked, sret, swhy, swaited>>
    /\ UNCHANGED <<mainVars, fetchVars, buildVars, driver>>
    /\ UNCHANGED <<apiVars, fnVars>>

\* One iteration of a typing loop (lines 297-305, 309-317): clear, send_keys,
\* read the value back; break when it matches, go round when it differs,
\* sleep 1 s and go round when anything raised (bare except).  After the last
\* iteration the code goes on whatever the field holds.
TypeOutcomes == {"match", "differs", "raise"}

search_by_address_fill_addr ==
    /\ spc = "fill_addr"
    /\ \E o \in TypeOutcomes, left \in BOOLEAN :
          /\ addrOk' = CASE o = "match" -> TRUE
                         [] o = "differs" -> FALSE
                         [] OTHER -> left
          /\ slept' = IF o = "raise" THEN Sleep("form", 1) ELSE NoSleep
          /\ IF o = "match" \/ search_last_try(stry)
                THEN spc' = "fill_loc" /\ stry' = 0
                ELSE spc' = spc /\ stry' = stry + 1
    /\ UNCHANGED <<locOk, clicked, sret, swhy, swait, swaited>>
    /\ UNCHANGED <<mainVars, fetchVars, buildVars, driver>>
    /\ UNCHANGED <<apiVars, fnVars>>

\* The second typing loop, then time.sleep(1) before clicking (line 320).
search_by_address_fill_loc ==
    /\ spc = "fill_loc"
    /\ \E o \in TypeOutcomes, left \in BOOLEAN :
          /\ locOk' = CASE o = "match" -> TRUE
                        [] o = "differs" -> FALSE
                        [] OTHER -> left
          /\ IF o = "match" \/ search_last_try(stry)
                THEN spc' = "click" /\ stry' = 0 /\ slept' = Sleep("form", 1)
                ELSE /\ spc' = spc
                     /\ stry' = stry + 1
                     /\ slept' = IF o = "raise" THEN Sleep("form", 1) ELSE NoSleep
    /\ UNCHANGED <<addrOk, clicked, sret, swhy, swait, swaited>>
    /\ UNCHANGED <<mainVars, fetchVars, buildVars, driver>>
    /\ UNCHANGED <<apiVars, fnVars>>

\* One iteration of the click loop (lines 323-329); after three failed clicks
\* the code goes on to wait for results.
search_by_address_click ==
    /\ spc = "click"
    /\ \E ok \in BOOLEAN :
          /\ clicked' = ok
          /\ slept' = IF ok THEN NoSleep ELSE Sleep("form", 1)
          /\ IF ok \/ search_last_try(stry)
                THEN spc' = "wait_results" /\ stry' = 0
                ELSE spc' = spc /\ stry' = stry + 1
    /\ UNCHANGED <<addrOk, locOk, sret, swhy, swait, swaited>>
    /\ UNCHANGED <<mainVars, fetchVars, buildVars, driver>>
    /\ UNCHANGED <<apiVars, fnVars>>

\* One iteration of the result-wait loop (lines 332-348): a WebDriverWait of
\* 15 s for card-summary or no-results; on TimeoutException return None when
\* it was the last iteration, else sleep 2 s and wait again.
search_by_address_wait_results ==
    /\ spc = "wait_results"
    /\ \E o \in WaitOutcomes :
          /\ swait' = o
          /\ CASE o = "ok" ->
                 /\ spc' = "source"
                 /\ slept' = NoSleep
                 /\ UNCHANGED <<stry, sret, swhy, swaited>>
               [] o = "timeout" ->
                 IF search_last_try(stry)
                    THEN /\ spc' = "returned"
                         /\ sret' = "None"
                         /\ swhy' = "form"
                         /\ stry' = stry
                         /\ slept' = NoSleep
                         /\ swaited' = swaited + results_wait
                    ELSE /\ spc' = spc
                         /\ stry' = stry + 1
                         /\ slept' = Sleep("form", results_pause)
                         /\ swaited' = swaited + results_wait + results_pause
                         /\ UNCHANGED <<sret, swhy>>
               [] OTHER ->
                 /\ spc' = "error"
                 /\ slept' = NoSleep
                 /\ UNCHANGED <<stry, sret, swhy, swaited>>
    /\ UNCHANGED <<addrOk, locOk, clicked>>
    /\ UNCHANGED <<mainVars, fetchVars, buildVars, driver>>
    /\ UNCHANGED <<apiVars, fnVars>>

\* html = self.driver.page_source (line 350)
search_by_address_source ==
    /\ spc = "source"
    /\ \E ok \in BOOLEAN : spc' = IF ok THEN "match" ELSE "error"
    /\ UNCHANGED <<stry, addrOk, locOk, clicked, sret, swhy, swait, swaited>>
    /\ UNCHANGED <<mainVars, fetchVars, buildVars, driver>>
    /\ slept' = NoSleep
    /\ UNCHANGED <<apiVars, fnVars>>

\* except Exception: screenshot under try/except-pass, return None (351-359).
search_by_address_error ==
    /\ spc = "error"
    /\ spc' = "returned"
    /\ sret' = "None"
    /\ swhy' = "form"
    /\ UNCHANGED <<stry, addrOk, locOk, clicked, swait, swaited>>
    /\ UNCHANGED <<mainVars, fetchVars, buildVars, driver>>
    /\ slept' = NoSleep
    /\ UNCHANGED <<apiVars, fnVars>>

\* Lines 361-378: the first card whose name matches and that has a detail
\* link gives the profile URL; no such card gives None.
search_by_address_match ==
    /\ spc = "match"
    /\ spc' = "returned"
    /\ \E found \in BOOLEAN :
          /\ sret' = IF found THEN "url" ELSE "None"
          /\ swhy' = IF found THEN "found" ELSE "nomatch"
    /\ UNCHANGED <<stry, addrOk, locOk, clicked, swait, swaited>>
    /\ UNCHANGED <<mainVars, fetchVars, buildVars, driver>>
    /\ slept' = NoSleep
    /\ UNCHANGED <<apiVars, fnVars>>

search_by_address ==
    \/ search_by_address_home
    \/ search_by_address_wait_form
    \/ search_by_address_fill_addr
    \/ search_by_address_fill_loc
    \/ search_by_address_click
    \/ search_by_address_wait_results
    \/ search_by_address_source
    \/ search_by_address_error
    \/ search_by_address_match

\* =================================================================== main
\* Python's None.
None == "None"

\* ScrapingResult(owner=owner) after __post_init__ (lines 64-74).
ScrapingResult(o) ==
    [owner |-> o, current_address |-> None, phone_numbers |-> <<>>,
     emails |-> <<>>, error |-> None]

NoResult == [owner |-> 0]

\* read_input_file (lines 424-465): one Owner per name found; row_index is the
\* row's index, so the indexes of the list never decrease and a row gives at
\* most two owners.
OwnerLists ==
    { l \in UNION { [1..n -> 0..(MaxOwners - 1)] : n \in 0..MaxOwners } :
        /\ \A i \in 1..(Len(l) - 1) : l[i] <= l[i + 1]
        /\ \A i \in 1..(Len(l) - 2) : l[i] < l[i + 2] }

\* What extract_profile_info reads from a loaded profile page (lines 386-422):
\* current_address is never assigned, phones and emails are lists.
ProfileInfos ==
    { [current_address |-> None, phone_numbers |-> <<>>, emails |-> <<>>],
      [current_address |-> None, phone_numbers |-> <<"555-0100", "555-0101">>,
       emails |-> <<"a@x.com">>] }

\* "return {}" of line 384 as main reads it: profile_info.get(key[, default]).
EmptyInfo == [current_address |-> None, phone_numbers |-> <<>>, emails |-> <<>>]

\* '; '.join(list)
RECURSIVE Join(_)
Join(l) ==
    IF l = <<>> THEN ""
    ELSE IF Len(l) = 1 THEN l[1]
    ELSE l[1] \o "; " \o Join(Tail(l))

\* One row of save_results' data (lines 471-487); the owner's name and address
\* columns are the owner itself.
Row(r) ==
    [owner |-> r.owner, row_index |-> owners[r.owner],
     current_address |-> r.current_address,
     phone_numbers |-> Join(r.phone_numbers), emails |-> Join(r.emails),
     error |-> r.error]

\* The rows written latest first, without the sort.
save_results_latest_first(rs) ==
    { [i \in 1..Len(rs) |-> Row(rs[Len(rs) + 1 - i])] }

\* save_results (lines 467-491): the rows in the order df.sort_values('Row
\* Index') leaves them.  The default sort is not stable, so every order of the
\* rows that is sorted by Row Index is possible.
save_results(rs) ==
    LET n == Len(rs)
        perms == { p \in [1..n -> 1..n] :
                     /\ \A i, j \in 1..n : i # j => p[i] # p[j]
                     /\ \A i \in 1..(n - 1) :
                           owners[rs[p[i]].owner] <= owners[rs[p[i + 1]].owner] }
    IN  { [i \in 1..n |-> Row(rs[p[i]])] : p \in perms }

\* Where main goes when the iteration of an owner has ended and d owners are
\* done: the next owner of the batch, or the end of the batch
\* (batch_end = min(batch_start + batch_size, total_owners)).
main_after_owner(d) ==
    IF d = Len(owners) \/ d % batch_size = 0 THEN "batch_end" ELSE "owner"

\* One result object shared by the iterations: the error written for the
\* current owner shows in every outcome appended before.
main_append_shared_result(r, f) ==
    /\ results' = Append([i \in 1..Len(results) |->
                             [results[i] EXCEPT !.error = r.error]], r)
    /\ fate' = [fate EXCEPT ![r.owner] = f]
    /\ done' = done + 1
    /\ cur' = NoResult
    /\ mpc' = main_after_owner(done + 1)

\* results.append(result) and the end of the iteration.
main_append(r, f) ==
    /\ results' = Append(results, r)
    /\ fate' = [fate EXCEPT ![r.owner] = f]
    /\ done' = done + 1
    /\ cur' = NoResult
    /\ mpc' = main_after_owner(done + 1)

\* An exception reaches "except Exception as e" of the loop body (line 541).
main_raise ==
    /\ mpc' = "except"
    /\ raisedAt' = raisedAt \cup {cur.owner}

\* The scraper constructed before the input is read: a failed read returns
\* with the session build under way.
main_read_after_construct ==
    /\ mpc = "read"
    /\ \/ /\ mpc' = "returned"
          /\ UNCHANGED <<owners, fate>>
          /\ setup_driver_call
       \/ /\ \E l \in OwnerLists :
                /\ owners' = l
                /\ fate' = [i \in 1..Len(l) |-> "Pending"]
          /\ mpc' = "construct"
          /\ setup_driver_call
    /\ UNCHANGED <<raisedAt, batch_size, done, cur, results, partialOut, finalOut,
                   finalWrites, pending>>
    /\ UNCHANGED <<searchVars, fetchVars, driver>>
    /\ slept' = NoSleep
    /\ UNCHANGED <<fetchFailedAt, batchSleeps, destroys>>
    /\ UNCHANGED <<apiVars, fnVars>>

\* owners = read_input_file(input_file) (lines 496-502): on an exception main
\* prints and returns; else scraper = TruePeopleSearchScraper() is next.
main_read ==
    /\ mpc = "read"
    /\ \/ /\ mpc' = "returned"
          /\ UNCHANGED <<owners, fate, buildVars>>
       \/ /\ \E l \in OwnerLists :
                /\ owners' = l
                /\ fate' = [i \in 1..Len(l) |-> "Pending"]
          /\ mpc' = "construct"
          /\ setup_driver_call
    /\ UNCHANGED <<raisedAt, batch_size, done, cur, results, partialOut, finalOut,
                   finalWrites, pending>>
    /\ UNCHANGED <<searchVars, fetchVars, driver>>
    /\ slept' = NoSleep
    /\ UNCHANGED <<fetchFailedAt, batchSleeps, destroys>>
    /\ UNCHANGED <<apiVars, fnVars>>

\* TruePeopleSearchScraper.__init__ (lines 81-86): self.driver =
\* self._setup_driver().  The call is before main's try block, so an exception
\* leaves main.  After it "results = []" and the first range() test.
main_construct ==
    /\ mpc = "construct"
    /\ bpc \in {"returned", "raised"}
    /\ IF bpc = "returned"
          THEN /\ driver' = "live"
               /\ mpc' = IF Len(owners) = 0 THEN "finally" ELSE "owner"
          ELSE /\ driver' = driver
               /\ mpc' = "raised"
    /\ setup_driver_reset
    /\ UNCHANGED <<raisedAt, owners, batch_size, done, cur, results, partialOut, finalOut,
                   finalWrites, pending, fate>>
    /\ UNCHANGED <<searchVars, fetchVars>>
    /\ slept' = NoSleep
    /\ UNCHANGED <<fetchFailedAt, batchSleeps, destroys>>
    /\ UNCHANGED <<apiVars, fnVars>>

\* result = ScrapingResult(owner=owner); scraper.search_by_address(owner)
main_owner ==
    /\ mpc = "owner"
    /\ cur' = ScrapingResult(done + 1)
    /\ fate' = [fate EXCEPT ![done + 1] = "InProgress"]
    /\ mpc' = "search"
    /\ search_by_address_call
    /\ UNCHANGED <<raisedAt, owners, batch_size, done, results, partialOut, finalOut,
                   finalWrites, pending>>
    /\ UNCHANGED <<buildVars, driver>>
    /\ slept' = NoSleep
    /\ UNCHANGED <<fetchFailedAt, batchSleeps, destroys>>
    /\ UNCHANGED <<apiVars, fnVars>>

\* Lines 522-530: no profile_url => "Profile not found", append, continue;
\* else scraper.extract_profile_info(profile_url), which starts with
\* _make_request(profile_url).
main_search ==
    /\ mpc = "search"
    /\ SearchEnded
    /\ IF spc = "raised"
          THEN /\ main_raise
               /\ UNCHANGED <<cur, results, done, fate, fetchVars>>
          ELSE IF sret = None
                  THEN /\ main_append([cur EXCEPT !.error = "Profile not found"],
                                      IF swhy = "nomatch" THEN "NotFound" ELSE "Failed")
                       /\ UNCHANGED <<raisedAt, fetchVars>>
                  ELSE /\ mpc' = "profile"
                       /\ make_request_call
                       /\ UNCHANGED <<raisedAt, cur, results, done, fate>>
    /\ search_by_address_reset
    /\ UNCHANGED <<owners, batch_size, partialOut, finalOut, finalWrites, pending>>
    /\ UNCHANGED <<buildVars, driver>>
    /\ slept' = NoSleep
    /\ UNCHANGED <<fetchFailedAt, batchSleeps, destroys>>
    /\ UNCHANGED <<apiVars, fnVars>>

\* extract_profile_info after its fetch (lines 383-422) and the three
\* assignments of main (lines 532-534).  No html gives {}; parsing the page
\* gives the lists, or raises (line 410 reads phone before any assignment when
\* the first phone link has no telephone span).
main_profile ==
    /\ mpc = "profile"
    /\ FetchEnded
    /\ IF fpc = "raised"
          THEN /\ main_raise
               /\ UNCHANGED <<cur, fate>>
          ELSE IF fret = None
                  THEN /\ cur' = [cur EXCEPT
                                    !.current_address = EmptyInfo.current_address,
                                    !.phone_numbers = EmptyInfo.phone_numbers,
                                    !.emails = EmptyInfo.emails]
                       /\ fate' = [fate EXCEPT ![cur.owner] = "Failed"]
                       /\ mpc' = "partial_save"
                       /\ UNCHANGED raisedAt
                  ELSE \/ /\ main_raise
                          /\ UNCHANGED <<cur, fate>>
                       \/ /\ \E info \in ProfileInfos :
                                cur' = [cur EXCEPT
                                          !.current_address = info.current_address,
                                          !.phone_numbers = info.phone_numbers,
                                          !.emails = info.emails]
                          /\ fate' = [fate EXCEPT ![cur.owner] = "Extracted"]
                          /\ mpc' = "partial_save"
                          /\ UNCHANGED raisedAt
    /\ fetchFailedAt' = IF fpc = "returned" /\ fret = None
                            THEN fetchFailedAt \cup {cur.owner}
                            ELSE fetchFailedAt
    /\ UNCHANGED <<batchSleeps, destroys>>
    /\ make_request_reset
    /\ UNCHANGED <<owners, batch_size, done, results, partialOut, finalOut,
                   finalWrites, pending>>
    /\ UNCHANGED <<searchVars, buildVars, driver>>
    /\ slept' = NoSleep
    /\ UNCHANGED <<apiVars, fnVars>>

\* Lines 536-545: "if results: save_results(results, partial)", then
\* results.append(result).  A failed write raises into "except Exception".
main_partial_save ==
    /\ mpc = "partial_save"
    /\ IF results = <<>>
          THEN /\ main_append(cur, fate[cur.owner])
               /\ UNCHANGED <<partialOut, raisedAt>>
          ELSE \/ /\ partialOut' \in save_results(results)
                  /\ main_append(cur, fate[cur.owner])
                  /\ UNCHANGED raisedAt
               \/ /\ main_raise
                  /\ UNCHANGED <<partialOut, results, fate, done, cur>>
    /\ UNCHANGED <<owners, batch_size, finalOut, finalWrites, pending>>
    /\ UNCHANGED <<searchVars, fetchVars, buildVars, driver>>
    /\ slept' = NoSleep
    /\ UNCHANGED <<fetchFailedAt, batchSleeps, destroys>>
    /\ UNCHANGED <<apiVars, fnVars>>

\* The loop body without its except clause: the exception leaves the loop.
main_except_propagates ==
    /\ mpc = "except"
    /\ mpc' = "finally"
    /\ pending' = "exception"
    /\ cur' = NoResult
    /\ UNCHANGED <<raisedAt, owners, batch_size, done, results, partialOut,
                   finalOut, finalWrites, fate>>
    /\ UNCHANGED <<searchVars, fetchVars, buildVars, driver>>
    /\ slept' = NoSleep
    /\ UNCHANGED <<fetchFailedAt, batchSleeps, destroys>>
    /\ UNCHANGED <<apiVars, fnVars>>

\* except Exception as e: result.error = str(e); then results.append(result)
\* (lines 541-545).
main_except ==
    /\ mpc = "except"
    /\ main_append([cur EXCEPT !.error = "exception"], "Failed")
    /\ UNCHANGED <<raisedAt, owners, batch_size, partialOut, finalOut, finalWrites, pending>>
    /\ UNCHANGED <<searchVars, fetchVars, buildVars, driver>>
    /\ slept' = NoSleep
    /\ UNCHANGED <<fetchFailedAt, batchSleeps, destroys>>
    /\ UNCHANGED <<apiVars, fnVars>>

\* The end of a batch that sleeps after the last batch too.
main_batch_end_always_sleeps ==
    /\ mpc = "batch_end"
    /\ \E d \in Uniform(15, 30) : slept' = Sleep("batch", d)
    /\ batchSleeps' = batchSleeps + 1
    /\ mpc' = IF done < Len(owners) THEN "owner" ELSE "finally"
    /\ UNCHANGED <<raisedAt, owners, batch_size, done, cur, results, partialOut, finalOut,
                   finalWrites, pending, fate>>
    /\ UNCHANGED <<searchVars, fetchVars, buildVars, driver>>
    /\ UNCHANGED <<fetchFailedAt, destroys>>
    /\ UNCHANGED <<apiVars, fnVars>>

\* Lines 547-551 and the next range() test: between batches
\* time.sleep(random.uniform(15, 30)); after the last batch the loop is over.
main_batch_end ==
    /\ mpc = "batch_end"
    /\ IF done < Len(owners)
          THEN /\ \E d \in Uniform(15, 30) : slept' = Sleep("batch", d)
               /\ batchSleeps' = batchSleeps + 1
               /\ mpc' = "owner"
          ELSE /\ slept' = NoSleep
               /\ UNCHANGED batchSleeps
               /\ mpc' = "finally"
    /\ UNCHANGED <<raisedAt, owners, batch_size, done, cur, results, partialOut, finalOut,
                   finalWrites, pending, fate>>
    /\ UNCHANGED <<searchVars, fetchVars, buildVars, driver>>
    /\ UNCHANGED <<fetchFailedAt, destroys>>
    /\ UNCHANGED <<apiVars, fnVars>>

\* A KeyboardInterrupt inside the try block of main: no "except Exception"
\* catches it, the stack unwinds to main's finally block.
main_interrupt ==
    /\ mpc \in {"owner", "search", "profile", "partial_save", "except", "batch_end"}
    /\ pending' = "interrupt"
    /\ mpc' = "finally"
    /\ cur' = NoResult
    /\ search_by_address_reset
    /\ make_request_reset
    /\ setup_driver_reset
    /\ UNCHANGED <<raisedAt, owners, batch_size, done, results, partialOut, finalOut,
                   finalWrites, fate>>
    /\ UNCHANGED <<driver>>
    /\ slept' = NoSleep
    /\ UNCHANGED <<fetchFailedAt, batchSleeps, destroys>>
    /\ UNCHANGED <<apiVars, fnVars>>

\* A finally block that goes to the cleanup without saving.
main_finally_no_save ==
    /\ mpc = "finally"
    /\ mpc' = "cleanup"
    /\ UNCHANGED <<finalOut, finalWrites, pending>>
    /\ UNCHANGED <<raisedAt, owners, batch_size, done, cur, results, partialOut, fate>>
    /\ UNCHANGED <<searchVars, fetchVars, buildVars, driver>>
    /\ slept' = NoSleep
    /\ UNCHANGED <<fetchFailedAt, batchSleeps, destroys>>
    /\ UNCHANGED <<apiVars, fnVars>>

\* finally: "if results: save_results(results, output_file)" (lines 553-558).
\* A failed write raises out of the finally block, past scraper.__del__().
main_finally ==
    /\ mpc = "finally"
    /\ IF results = <<>>
          THEN /\ mpc' = "cleanup"
               /\ UNCHANGED <<finalOut, finalWrites, pending>>
          ELSE \/ /\ finalOut' \in save_results(results)
                  /\ finalWrites' = finalWrites + 1
                  /\ mpc' = "cleanup"
                  /\ UNCHANGED pending
               \/ /\ mpc' = "raised"
                  /\ pending' = "save"
                  /\ UNCHANGED <<finalOut, finalWrites>>
    /\ UNCHANGED <<raisedAt, owners, batch_size, done, cur, results, partialOut, fate>>
    /\ UNCHANGED <<searchVars, fetchVars, buildVars, driver>>
    /\ slept' = NoSleep
    /\ UNCHANGED <<fetchFailedAt, batchSleeps, destroys>>
    /\ UNCHANGED <<apiVars, fnVars>>

\* scraper.__del__() (line 561, lines 259-264): self.driver.quit() under
\* try/except-pass; then main ends, re-raising a pending KeyboardInterrupt.
main_cleanup ==
    /\ mpc = "cleanup"
    /\ driver' = Quit(driver)
    /\ destroys' = destroys + 1
    /\ mpc' = IF pending = "none" THEN "returned" ELSE "raised"
    /\ UNCHANGED <<raisedAt, owners, batch_size, done, cur, results, partialOut, finalOut,
                   finalWrites, pending, fate>>
    /\ UNCHANGED <<searchVars, fetchVars, buildVars>>
    /\ slept' = NoSleep
    /\ UNCHANGED <<fetchFailedAt, batchSleeps>>
    /\ UNCHANGED <<apiVars, fnVars>>

MainEnded == mpc \in {"returned", "raised"}

\* main is past its for loops.
LoopLeft == mpc \in {"finally", "cleanup", "returned", "raised", "exited"}

\* The interpreter exits after main: __del__ of the scraper object (lines
\* 259-264) runs as a finalizer, or does not (Python does not guarantee
\* finalizers at exit).
interpreter_exit ==
    /\ MainEnded
    /\ mpc' = "exited"
    /\ \E fin \in BOOLEAN :
          /\ driver' = IF fin THEN Quit(driver) ELSE driver
          /\ destroys' = IF fin THEN destroys + 1 ELSE destroys
    /\ UNCHANGED <<raisedAt, owners, batch_size, done, cur, results, partialOut, finalOut,
                   finalWrites, pending, fate>>
    /\ UNCHANGED <<searchVars, fetchVars, buildVars>>
    /\ slept' = NoSleep
    /\ UNCHANGED <<fetchFailedAt, batchSleeps>>
    /\ UNCHANGED <<apiVars, fnVars>>

main ==
    \/ main_read
    \/ main_construct
    \/ main_owner
    \/ main_search
    \/ main_profile
    \/ main_partial_save
    \/ main_except
    \/ main_batch_end
    \/ main_interrupt
    \/ main_finally
    \/ main_cleanup
    \/ interpreter_exit

\* ------------------------------------------------------------------ strings
\* A str is the sequence of its characters; an Optional[str] is <<>> for None
\* and <<s>> for the string s.
NoStr == <<>>

Str(s) == <<s>>

\* Python's truth value of an Optional[str]: None and "" are false.
Truthy(o) == o # NoStr /\ o[1] # <<>>

\* c in s
Contains(s, c) == \E i \in 1..Len(s) : s[i] = c

\* s.split(c, 1) for a string that contains c: the text before the first c and
\* the text after it.
split_once(s, c) ==
    LET i == CHOOSE j \in 1..Len(s) : s[j] = c /\ \A k \in 1..(j - 1) : s[k] # c
    IN  <<SubSeq(s, 1, i - 1), SubSeq(s, i + 1, Len(s))>>

\* s.strip(): the whitespace at both ends removed.
strip(s) ==
    LET inner == { i \in 1..Len(s) : s[i] # " " }
    IN  IF inner = {} THEN <<>>
        ELSE SubSeq(s, CHOOSE i \in inner : \A j \in inner : i <= j,
                       CHOOSE i \in inner : \A j \in inner : i >= j)

\* urllib.parse.quote_plus for one character: a space gives "+", a letter, a
\* digit or one of "_.-~" itself, any other character its %XX escape.
quote_plus_char(c) ==
    CASE c = " " -> <<"+">>
      [] c = ";" -> <<"%", "3", "B">>
      [] c = "," -> <<"%", "2", "C">>
      [] OTHER   -> <<c>>

RECURSIVE quote_plus(_)
quote_plus(s) ==
    IF s = <<>> THEN <<>> ELSE quote_plus_char(Head(s)) \o quote_plus(Tail(s))

\* re.sub(r'\D', '', phone) (api.py line 647): the decimal digits of phone, in
\* order.
clean_phone(phone) ==
    SelectSeq(phone, LAMBDA c : c \in {"0", "1", "2", "3", "4", "5", "6", "7", "8", "9"})

\* A search URL: its path, its first parameter and its citystatezip parameter
\* (NoStr: the URL has none).
Url(path, arg, city_state) == [path |-> path, arg |-> arg, citystatezip |-> city_state]

NoUrl == Url("-", <<>>, NoStr)

\* The URL of search_by_name whose split keeps the whitespace around the parts.
search_by_name_url_unstripped(name, city_state) ==
    LET split == Contains(name, ";") /\ ~Truthy(city_state)
        parts == split_once(name, ";")
        nm == IF split THEN parts[1] ELSE name
        cs == IF split THEN Str(parts[2]) ELSE city_state
    IN  Url("/results", quote_plus(nm),
            IF Truthy(cs) THEN Str(quote_plus(cs[1])) ELSE NoStr)

\* search_by_name, lines 463-472: 'if ";" in name and not city_state' splits
\* the name once at the first ";" and strips both parts; the URL is
\* /results?name=quote_plus(name), with &citystatezip=quote_plus(city_state)
\* when city_state is true.
search_by_name_url(name, city_state) ==
    LET split == Contains(name, ";") /\ ~Truthy(city_state)
        parts == split_once(name, ";")
        nm == IF split THEN strip(parts[1]) ELSE name
        cs == IF split THEN Str(strip(parts[2])) ELSE city_state
    IN  Url("/results", quote_plus(nm),
            IF Truthy(cs) THEN Str(quote_plus(cs[1])) ELSE NoStr)

\* ============================================== the search service (api.py)
\* The request threads of the Flask development server: app.run(...) serves
\* every request in a thread of its own (threaded is the default), so two
\* requests that arrive together run their handlers side by side.
Handlers == {"t1", "t2"}

\* SearchResult(search_option, input_given, ...) after __post_init__
\* (api.py lines 114-135): every optional field defaults to None, emails and
\* phones to [].
SearchResult(input) ==
    [search_option |-> "Name Search", input_given |-> input,
     first_name |-> None, last_name |-> None, age |-> None, lives_in |-> None,
     street_address |-> None, address_locality |-> None, address_region |-> None,
     postal_code |-> None, country_name |-> None, emails |-> <<>>, phones |-> <<>>,
     person_link |-> None, error |-> None]

\* An error record that keeps the link of the profile it failed on.
ErrorResult_keeps_link(input, message) ==
    [SearchResult(input) EXCEPT !.error = message, !.person_link = "/find/person"]

\* SearchResult(search_option=..., input_given=..., error=message)
\* (lines 477-481, 489-493, 532-536).
ErrorResult(input, message) ==
    [SearchResult(input) EXCEPT !.error = message]

\* What _extract_profile_info returns for a loaded profile page (lines
\* 343-456): a dict that always has its eleven keys, each part present or
\* not; lives_in is set when locality and region both are.
ApiProfileInfos ==
    { [first_name |-> None, last_name |-> None, age |-> None, lives_in |-> None,
       street_address |-> None, address_locality |-> None, address_region |-> None,
       postal_code |-> None, country_name |-> None, emails |-> <<>>, phones |-> <<>>],
      [first_name |-> "Jane", last_name |-> None, age |-> None, lives_in |-> None,
       street_address |-> None, address_locality |-> "Springfield",
       address_region |-> None, postal_code |-> None, country_name |-> None,
       emails |-> <<"a@x.com">>, phones |-> <<>>],
      [first_name |-> "Jane", last_name |-> "Doe", age |-> "45",
       lives_in |-> "Springfield, IL", street_address |-> "1 Main St",
       address_locality |-> "Springfield", address_region |-> "IL",
       postal_code |-> "62701", country_name |-> "Sangamon County",
       emails |-> <<"a@x.com">>,
       phones |-> <<[number |-> "555-0100", type |-> "Wireless",
                     last_reported |-> "", provider |-> ""]>>] }

\* The record search_by_name builds from a profile (lines 511-526).
ProfileResult(input, info, link) ==
    [SearchResult(input) EXCEPT
        !.first_name = info.first_name, !.last_name = info.last_name,
        !.age = info.age, !.lives_in = info.lives_in,
        !.street_address = info.street_address,
        !.address_locality = info.address_locality,
        !.address_region = info.address_region,
        !.postal_code = info.postal_code, !.country_name = info.country_name,
        !.emails = info.emails, !.phones = info.phones, !.person_link = link]

\* f"{i}" for the slot numbers.
Digits == <<"1", "2", "3", "4", "5", "6", "7", "8", "9">>

\* The keys to_dict writes for slot i: f"Email {i}", f"Phone {i}",
\* f"Phone {i} Type", f"Phone {i} Last Reported", f"Phone {i} Provider".
EmailKey(i) == "Email " \o Digits[i]

PhoneKey(i) == "Phone " \o Digits[i]

PhoneTypeKey(i) == PhoneKey(i) \o " Type"

PhoneReportedKey(i) == PhoneKey(i) \o " Last Reported"

PhoneProviderKey(i) == PhoneKey(i) \o " Provider"

\* self.emails[:5], self.phones[:5]
FirstFive(l) == [i \in 1..(IF Len(l) < 5 THEN Len(l) ELSE 5) |-> l[i]]

\* The dict of one slot of a phone (lines 164-167, or 171-174 with "" for all).
PhoneSlot(i, p) ==
    (PhoneKey(i) :> p.number) @@ (PhoneTypeKey(i) :> p.type)
    @@ (PhoneReportedKey(i) :> p.last_reported) @@ (PhoneProviderKey(i) :> p.provider)

NoPhone == [number |-> "", type |-> "", last_reported |-> "", provider |-> ""]

\* The assignments of a loop "for i in ...: result[...] = ..." applied to dict
\* d, slots[i] being the keys and values iteration i writes (the loops of
\* to_dict write different keys in different iterations): those keys are
\* written, the other keys of d stay.
Assigned(slots, d) ==
    LET written == UNION { DOMAIN slots[i] : i \in DOMAIN slots }
    IN  [k \in written \cup DOMAIN d |->
            IF k \in written
               THEN slots[CHOOSE i \in DOMAIN slots : k \in DOMAIN slots[i]][k]
               ELSE d[k]]

\* The twelve scalar columns (lines 139-152).
ScalarColumns(r) ==
    ("Search Option" :> r.search_option) @@ ("Input Given" :> r.input_given)
    @@ ("First Name" :> r.first_name) @@ ("Last Name" :> r.last_name)
    @@ ("Age" :> r.age) @@ ("Lives in" :> r.lives_in)
    @@ ("Street Address" :> r.street_address)
    @@ ("Address Locality" :> r.address_locality)
    @@ ("Address Region" :> r.address_region)
    @@ ("Postal Code" :> r.postal_code)
    @@ ("Country Name" :> r.country_name)
    @@ ("Person Link" :> r.person_link)

\* to_dict whose fill loops start one slot late: range(len(...) + 2, 6).
to_dict_fill_starts_late(r) ==
    LET e1 == [i \in DOMAIN FirstFive(r.emails) |-> EmailKey(i) :> r.emails[i]]
        e2 == [i \in (Len(r.emails) + 2)..5 |-> EmailKey(i) :> ""]
        p1 == [i \in DOMAIN FirstFive(r.phones) |-> PhoneSlot(i, r.phones[i])]
        p2 == [i \in (Len(r.phones) + 2)..5 |-> PhoneSlot(i, NoPhone)]
    IN  Assigned(p2, Assigned(p1, Assigned(e2, Assigned(e1, ScalarColumns(r)))))

\* SearchResult.to_dict (lines 137-176): the scalar columns, then the emails
\* and phones of the first five slots, then "" for the slots from
\* len(...) + 1 to 5.
to_dict(r) ==
    LET e1 == [i \in DOMAIN FirstFive(r.emails) |-> EmailKey(i) :> r.emails[i]]
        e2 == [i \in (Len(r.emails) + 1)..5 |-> EmailKey(i) :> ""]
        p1 == [i \in DOMAIN FirstFive(r.phones) |-> PhoneSlot(i, r.phones[i])]
        p2 == [i \in (Len(r.phones) + 1)..5 |-> PhoneSlot(i, NoPhone)]
    IN  Assigned(p2, Assigned(p1, Assigned(e2, Assigned(e1, ScalarColumns(r)))))

\* The person cards of a listing page: each has a detail-link anchor or not.
CardLists ==
    UNION { [1..n -> {"link", "nolink"}] : n \in 0..MaxCards }

\* The slice that takes one card more than max_results.
FirstCards_one_more(cards, m) ==
    [i \in 1..(IF Len(cards) < m + 1 THEN Len(cards) ELSE m + 1) |-> cards[i]]

\* person_cards[:max_results] for a count max_results >= 0.
FirstCards(cards, m) ==
    [i \in 1..(IF Len(cards) < m THEN Len(cards) ELSE m) |-> cards[i]]

\* f"{self.BASE_URL}{link_elem['href']}" of the i-th card of the page.
PersonLink(i) == "/find/person-" \o Digits[i]

\* A handler thread is inside _make_request, driving the shared session.
ApiFetching(h) == hpc[h] \in {"listing", "profile"}

\* The locals of search_by_name after it has ended.
api_locals_gone(h) ==
    /\ hcards' = [hcards EXCEPT ![h] = <<>>]
    /\ hi' = [hi EXCEPT ![h] = 1]
    /\ hres' = [hres EXCEPT ![h] = <<>>]

\* The handler ends with Flask's response for an exception of kind e (lines
\* 98-99, or Flask's own handling for before_first_request).
api_fail(h, e) ==
    /\ hpc' = [hpc EXCEPT ![h] = "failed"]
    /\ herr' = [herr EXCEPT ![h] = e]
    /\ hret' = hret
    /\ api_locals_gone(h)

\* search_by_name returns lst to the handler.
api_return(h, lst) ==
    /\ hpc' = [hpc EXCEPT ![h] = "extend"]
    /\ hret' = [hret EXCEPT ![h] = lst]
    /\ herr' = herr
    /\ api_locals_gone(h)

\* The query strings of a request: one string serves for all name queries,
\* one for all phone queries.
NameQuery == <<"q">>

PhoneQueries == { <<"(", "5", ")", " ", "5", "-", "1">> }

\* What the handler has read of the request body before it reads a key.
NoData == [name |-> 0, street_citystatezip |-> 0, phone_number |-> 0]

\* The results dict of the handler (line 52): its keys, and the list under
\* 'name_results'.
NoBody == [keys |-> {}, name_results |-> <<>>]

\* POST /search arrives (lines 42-53): no JSON gives 400; else
\* max_results = data.get('max_results', 1), a count (0 asks for no entry).
api_request(h) ==
    /\ hpc[h] = "idle"
    /\ \/ /\ hpc' = [hpc EXCEPT ![h] = "rejected"]
          /\ UNCHANGED hmax
       \/ /\ \E m \in 0..MaxResults : hmax' = [hmax EXCEPT ![h] = m]
          /\ hpc' = [hpc EXCEPT ![h] = "first"]
    /\ UNCHANGED hret
    /\ UNCHANGED <<api_instance, got_first, instances, hcards, hi, hres>>
    /\ UNCHANGED <<hdata, hk, hbody, hphone, hurl, herr>>
    /\ UNCHANGED <<batchVars, fnVars>>

\* @app.before_first_request initialize_api (lines 34-40): Flask runs it under
\* its lock before the first request is dispatched, and again for the next
\* request when it raised.  TruePeopleSearchAPI() builds the session
\* (line 189) and raises when the build fails.
api_before_first(h) ==
    /\ hpc[h] = "first"
    /\ IF got_first
          THEN /\ hpc' = [hpc EXCEPT ![h] = "names"]
               /\ UNCHANGED <<api_instance, got_first, instances, hret, herr>>
          ELSE \E ok \in BOOLEAN :
                  IF ok
                     THEN /\ api_instance' = "api"
                          /\ instances' = IF api_instance = None
                                             THEN instances + 1 ELSE instances
                          /\ got_first' = TRUE
                          /\ hpc' = [hpc EXCEPT ![h] = "names"]
                          /\ UNCHANGED <<hret, herr>>
                     ELSE /\ hpc' = [hpc EXCEPT ![h] = "failed"]
                          /\ herr' = [herr EXCEPT ![h] = "session"]
                          /\ UNCHANGED <<api_instance, got_first, instances, hret>>
    /\ UNCHANGED <<hmax, hcards, hi, hres>>
    /\ UNCHANGED <<hdata, hk, hbody, hphone, hurl>>
    /\ UNCHANGED <<batchVars, fnVars>>

\* Lines 56-58: "if 'name' in data and data['name']" and the start of the loop
\* over the n name queries; without the key the handler goes on to the
\* address queries.
api_names(h) ==
    /\ hpc[h] = "names"
    /\ \E n \in 0..MaxQueries :
          /\ hdata' = [hdata EXCEPT ![h].name = n]
          /\ hpc' = [hpc EXCEPT ![h] = IF n = 0 THEN "addresses" ELSE "handler"]
    /\ hk' = [hk EXCEPT ![h] = 1]
    /\ UNCHANGED <<api_instance, got_first, instances, hmax, hcards, hi, hres, hret>>
    /\ UNCHANGED <<hbody, hphone, hurl, herr>>
    /\ UNCHANGED <<batchVars, fnVars>>

\* Lines 58-65, one name query: "if api_instance is None: api_instance =
\* TruePeopleSearchAPI()", then api_instance.search_by_name(name_query,
\* max_results), which builds its URL and calls self._make_request(url)
\* (lines 460-475).
api_search(h) ==
    /\ hpc[h] = "handler"
    /\ IF api_instance = None
          THEN /\ api_instance' = "api"
               /\ instances' = instances + 1
          ELSE UNCHANGED <<api_instance, instances>>
    /\ hpc' = [hpc EXCEPT ![h] = "listing"]
    /\ hurl' = [hurl EXCEPT ![h] = search_by_name_url(NameQuery, NoStr)]
    /\ hres' = [hres EXCEPT ![h] = <<>>]
    /\ hcards' = [hcards EXCEPT ![h] = <<>>]
    /\ hi' = [hi EXCEPT ![h] = 1]
    /\ UNCHANGED <<got_first, hmax, hret>>
    /\ UNCHANGED <<hdata, hk, hbody, hphone, herr>>
    /\ UNCHANGED <<batchVars, fnVars>>

\* Lines 475-497: _make_request(url) has ended.  No html returns the record
\* "Failed to retrieve search results", a page without person cards the record
\* "No results found"; else the loop over person_cards[:max_results] starts.
\* An exception of _make_request reaches the handler's except clause.
api_listing(h) ==
    /\ hpc[h] = "listing"
    /\ \/ api_fail(h, "fetch")
       \/ api_return(h, <<ErrorResult("q", "Failed to retrieve search results")>>)
       \/ \E cards \in CardLists :
             IF cards = <<>>
                THEN api_return(h, <<ErrorResult("q", "No results found")>>)
                ELSE /\ hcards' = [hcards EXCEPT ![h] = cards]
                     /\ hi' = [hi EXCEPT ![h] = 1]
                     /\ hpc' = [hpc EXCEPT ![h] = "cards"]
                     /\ UNCHANGED <<hret, hres, herr>>
    /\ UNCHANGED <<api_instance, got_first, instances, hmax>>
    /\ UNCHANGED <<hdata, hk, hbody, hphone, hurl>>
    /\ UNCHANGED <<batchVars, fnVars>>

\* One card of the loop (lines 497-506): a card without a detail link is
\* skipped; else _extract_profile_info(person_link) calls _make_request.  After
\* the last card: no result gives the record "No valid results could be
\* processed", else the results are returned (lines 530-539).
api_card(h) ==
    /\ hpc[h] = "cards"
    /\ IF hi[h] > Len(FirstCards(hcards[h], hmax[h]))
          THEN api_return(h, IF hres[h] = <<>>
                                THEN <<ErrorResult("q", "No valid results could be processed")>>
                                ELSE hres[h])
          ELSE IF hcards[h][hi[h]] = "nolink"
                  THEN /\ hi' = [hi EXCEPT ![h] = hi[h] + 1]
                       /\ UNCHANGED <<hpc, hret, hcards, hres, herr>>
                  ELSE /\ hpc' = [hpc EXCEPT ![h] = "profile"]
                       /\ UNCHANGED <<hi, hret, hcards, hres, herr>>
    /\ UNCHANGED <<api_instance, got_first, instances, hmax>>
    /\ UNCHANGED <<hdata, hk, hbody, hphone, hurl>>
    /\ UNCHANGED <<batchVars, fnVars>>

\* A profile step that records a card whose profile fetch gave nothing as an
\* error record among the results.
api_profile_records_failure(h) ==
    /\ hpc[h] = "profile"
    /\ \/ api_fail(h, "fetch")
       \/ /\ hres' = [hres EXCEPT ![h] =
                         Append(hres[h], ErrorResult("q", "Failed to retrieve profile"))]
          /\ hi' = [hi EXCEPT ![h] = hi[h] + 1]
          /\ hpc' = [hpc EXCEPT ![h] = "cards"]
          /\ UNCHANGED <<hret, hcards, herr>>
       \/ /\ \E info \in ApiProfileInfos :
                hres' = [hres EXCEPT ![h] =
                            Append(hres[h], ProfileResult("q", info, PersonLink(hi[h])))]
          /\ hi' = [hi EXCEPT ![h] = hi[h] + 1]
          /\ hpc' = [hpc EXCEPT ![h] = "cards"]
          /\ UNCHANGED <<hret, hcards, herr>>
    /\ UNCHANGED <<api_instance, got_first, instances, hmax>>
    /\ UNCHANGED <<hdata, hk, hbody, hphone, hurl>>
    /\ UNCHANGED <<batchVars, fnVars>>

\* Lines 506-528: _extract_profile_info has ended.  {} (the fetch returned
\* None) skips the card; a dict appends the record built from it.
api_profile(h) ==
    /\ hpc[h] = "profile"
    /\ \/ api_fail(h, "fetch")
       \/ /\ hi' = [hi EXCEPT ![h] = hi[h] + 1]
          /\ hpc' = [hpc EXCEPT ![h] = "cards"]
          /\ UNCHANGED <<hres, hret, hcards, herr>>
       \/ /\ \E info \in ApiProfileInfos :
                hres' = [hres EXCEPT ![h] =
                            Append(hres[h], ProfileResult("q", info, PersonLink(hi[h])))]
          /\ hi' = [hi EXCEPT ![h] = hi[h] + 1]
          /\ hpc' = [hpc EXCEPT ![h] = "cards"]
          /\ UNCHANGED <<hret, hcards, herr>>
    /\ UNCHANGED <<api_instance, got_first, instances, hmax>>
    /\ UNCHANGED <<hdata, hk, hbody, hphone, hurl>>
    /\ UNCHANGED <<batchVars, fnVars>>

\* Lines 66-67: name_results.extend([result.to_dict() for result in
\* search_results]); after the last query results['name_results'] =
\* name_results.
api_extend(h) ==
    /\ hpc[h] = "extend"
    /\ LET name_results ==
              hbody[h].name_results \o [i \in 1..Len(hret[h]) |-> to_dict(hret[h][i])]
       IN  IF hk[h] < hdata[h].name
              THEN /\ hbody' = [hbody EXCEPT ![h].name_results = name_results]
                   /\ hk' = [hk EXCEPT ![h] = hk[h] + 1]
                   /\ hpc' = [hpc EXCEPT ![h] = "handler"]
              ELSE /\ hbody' = [hbody EXCEPT ![h] =
                                  [keys |-> {"name_results"}, name_results |-> name_results]]
                   /\ hk' = [hk EXCEPT ![h] = 1]
                   /\ hpc' = [hpc EXCEPT ![h] = "addresses"]
    /\ UNCHANGED <<api_instance, got_first, instances, hmax, hcards, hi, hres, hret>>
    /\ UNCHANGED <<hdata, hphone, hurl, herr>>
    /\ UNCHANGED <<batchVars, fnVars>>

\* Lines 70-78: "if 'street_citystatezip' in data and
\* data['street_citystatezip']", and for the first query
\* api_instance.search_by_address(...).  The def of search_by_address (line
\* 548) stands in the body of the 'if __name__ == "__main__":' of line 542,
\* behind app.run(...): it is no attribute of TruePeopleSearchAPI, the call
\* raises AttributeError and the except clause of line 98 answers 500.
api_addresses(h) ==
    /\ hpc[h] = "addresses"
    /\ \E n \in 0..MaxQueries :
          /\ hdata' = [hdata EXCEPT ![h].street_citystatezip = n]
          /\ IF n = 0
                THEN /\ hpc' = [hpc EXCEPT ![h] = "phones"]
                     /\ UNCHANGED <<api_instance, instances, herr>>
                ELSE /\ IF api_instance = None
                           THEN /\ api_instance' = "api"
                                /\ instances' = instances + 1
                           ELSE UNCHANGED <<api_instance, instances>>
                     /\ hpc' = [hpc EXCEPT ![h] = "failed"]
                     /\ herr' = [herr EXCEPT ![h] = "AttributeError"]
    /\ UNCHANGED <<got_first, hmax, hcards, hi, hres, hret>>
    /\ UNCHANGED <<hk, hbody, hphone, hurl>>
    /\ UNCHANGED <<batchVars, fnVars>>

\* Lines 83-91: the same for 'phone_number': search_by_phone (line 641) stands
\* behind the app.run(...) of line 639, the call raises AttributeError before
\* any URL is built.
api_phones(h) ==
    /\ hpc[h] = "phones"
    /\ \/ /\ hdata' = [hdata EXCEPT ![h].phone_number = 0]
          /\ hpc' = [hpc EXCEPT ![h] = "respond"]
          /\ UNCHANGED <<api_instance, instances, herr, hphone>>
       \/ \E n \in 1..MaxQueries, q \in PhoneQueries :
             /\ hdata' = [hdata EXCEPT ![h].phone_number = n]
             /\ hphone' = [hphone EXCEPT ![h] = q]
             /\ IF api_instance = None
                   THEN /\ api_instance' = "api"
                        /\ instances' = instances + 1
                   ELSE UNCHANGED <<api_instance, instances>>
             /\ hpc' = [hpc EXCEPT ![h] = "failed"]
             /\ herr' = [herr EXCEPT ![h] = "AttributeError"]
    /\ UNCHANGED <<got_first, hmax, hcards, hi, hres, hret>>
    /\ UNCHANGED <<hk, hbody, hurl>>
    /\ UNCHANGED <<batchVars, fnVars>>

\* Line 96: return jsonify(results).
api_respond(h) ==
    /\ hpc[h] = "respond"
    /\ hpc' = [hpc EXCEPT ![h] = "done"]
    /\ UNCHANGED <<api_instance, got_first, instances, hmax, hcards, hi, hres, hret>>
    /\ UNCHANGED <<hdata, hk, hbody, hphone, hurl, herr>>
    /\ UNCHANGED <<batchVars, fnVars>>

api ==
    \E h \in Handlers :
        \/ api_request(h)
        \/ api_before_first(h)
        \/ api_names(h)
        \/ api_search(h)
        \/ api_listing(h)
        \/ api_card(h)
        \/ api_profile(h)
        \/ api_extend(h)
        \/ api_addresses(h)
        \/ api_phones(h)
        \/ api_respond(h)

\* The service process after "app = Flask(__name__)" and "api_instance = None".
api_init ==
    /\ api_instance = None
    /\ got_first = FALSE
    /\ instances = 0
    /\ hpc = [h \in Handlers |-> "idle"]
    /\ hmax = [h \in Handlers |-> 1]
    /\ hcards = [h \in Handlers |-> <<>>]
    /\ hi = [h \in Handlers |-> 1]
    /\ hres = [h \in Handlers |-> <<>>]
    /\ hret = [h \in Handlers |-> <<>>]
    /\ hdata = [h \in Handlers |-> NoData]
    /\ hk = [h \in Handlers |-> 1]
    /\ hbody = [h \in Handlers |-> NoBody]
    /\ hphone = [h \in Handlers |-> <<>>]
    /\ hurl = [h \in Handlers |-> NoUrl]
    /\ herr = [h \in Handlers |-> "none"]

\* ================================================= the computing functions
\* to_dict, the URL of search_by_name and the parsing of a profile page read
\* no session and no clock: each is called once, on an argument drawn from
\* the values its callers can pass.
\* Most emails, and most phones, of a record or of a profile page.
MaxEmails == 6

MaxPhones == 6

EmailPool == <<"a@x.com", "b@y.com", "c@z.com", "d@x.com", "e@y.com", "f@z.com",
               "g@x.com", "h@y.com">>

PhonePool == <<"555-0100", "555-0101", "555-0102", "555-0103", "555-0104",
               "555-0105", "555-0106", "555-0107">>

\* The phone dict _extract_profile_info builds (lines 415-420) for a number
\* whose block has no caption.
PhoneData(number) ==
    [number |-> number, type |-> "Unknown", last_reported |-> "", provider |-> ""]

\* The records search_by_name builds (lines 511-526) with n emails and m phones.
Records ==
    { [SearchResult("q") EXCEPT
          !.first_name = "Jane", !.person_link = "/find/person",
          !.emails = [i \in 1..n |-> EmailPool[i]],
          !.phones = [i \in 1..m |-> PhoneData(PhonePool[i])]] :
        n \in 0..MaxEmails, m \in 0..MaxPhones }

\* result.to_dict() (line 66) on one record.
fn_to_dict ==
    /\ fcall = "none"
    /\ \E r \in Records :
          /\ farg' = r
          /\ fval' = to_dict(r)
    /\ fcall' = "to_dict"
    /\ UNCHANGED <<batchVars, apiVars>>

\* Longest name string tried, besides the one of the documented example.
MaxNameLen == 4

\* "Jane Doe; Springfield, IL"
ExampleName ==
    <<"J", "a", "n", "e", " ", "D", "o", "e", ";", " ", "S", "p", "r", "i", "n",
      "g", "f", "i", "e", "l", "d", ",", " ", "I", "L">>

\* The name arguments of search_by_name: strings of a letter, the space and
\* the ";".
Names ==
    UNION { [1..n -> {"J", " ", ";"}] : n \in 0..MaxNameLen } \cup {ExampleName}

\* The city_state arguments: None (the default, which the handler uses), "",
\* and two localities.
CityStates == {NoStr, Str(<<>>), Str(<<"S">>), Str(<<"S", ",", " ", "I">>)}

\* search_by_name(name, city_state) up to the URL it requests (lines 458-472).
fn_search_by_name ==
    /\ fcall = "none"
    /\ \E name \in Names, city_state \in CityStates :
          /\ farg' = [name |-> name, city_state |-> city_state]
          /\ fval' = search_by_name_url(name, city_state)
    /\ fcall' = "search_by_name"
    /\ UNCHANGED <<batchVars, apiVars>>

\* --------------------------------------------------------- a profile page
\* Most phone blocks, and most email blocks, of a profile page.
MaxSections == 3

MaxDivs == 3

\* The h1 of class h2: absent (""), or its text.
Headers == {"", "Jane", "Jane Doe, 45"}

\* name_text.split(',', 1), full_name.split(' ', 1) and re.search(r'\d+', ...)
\* (api.py lines 361-376) on the header texts.
header_fields(h) ==
    CASE h = "Jane"         -> [first_name |-> "Jane", last_name |-> None, age |-> None]
      [] h = "Jane Doe, 45" -> [first_name |-> "Jane", last_name |-> "Doe", age |-> "45"]
      [] OTHER              -> [first_name |-> None, last_name |-> None, age |-> None]

\* The div of itemtype PostalAddress: absent ("none"), with the street span
\* only, with its four spans, or with the four spans and a county text.
Addresses == {"none", "street", "spans", "county"}

\* The address keys read from the block (api.py lines 379-405).
address_fields(a) ==
    LET all == a \in {"spans", "county"}
        locality == IF all THEN "Springfield" ELSE None
        region == IF all THEN "IL" ELSE None
    IN  [street_address |-> IF a = "none" THEN None ELSE "1 Main St",
         address_locality |-> locality,
         address_region |-> region,
         postal_code |-> IF all THEN "62701" ELSE None,
         lives_in |-> IF locality # None /\ region # None
                         THEN "Springfield, IL" ELSE None,
         country_name |-> IF a = "county" THEN "Sangamon County" ELSE None]

\* The caption of a phone block (the div of class "mt-1 dt-ln"): absent, or
\* "Possible Primary Phone / Wireless / Last reported Jan 2020", or
\* "Landline / Last reported Mar 2019".
Captions == {"none", "primary", "landline"}

\* A phone block (a div of class col with bis_skin_checked): whether it has
\* the phone link, the text of the telephone span in the link ("": no span),
\* and its caption.
Sections ==
    { s \in [link : BOOLEAN, number : {"", PhonePool[1], PhonePool[2], PhonePool[3]},
             caption : Captions] :
        ~s.link => (s.number = "" /\ s.caption = "none") }

\* The words of the text of a div of class col.
Words == {"Email:", EmailPool[1], EmailPool[2]}

DivTexts ==
    { <<w>> : w \in Words } \cup { <<"Email:", EmailPool[1]>>, <<EmailPool[2], EmailPool[1]>> }

\* The lists of at most n elements of set S.
ListsUpTo(S, n) == UNION { [1..k -> S] : k \in 0..n }

\* A loaded profile page.
Page(h, a, secs, divs) == [header |-> h, address |-> a, sections |-> secs, divs |-> divs]

\* The pages tried: every combination of the parts with at most one phone
\* block and one email block, every list of phone blocks, every list of
\* email blocks.
Pages ==
    { Page(h, a, secs, divs) :
        h \in Headers, a \in Addresses, secs \in ListsUpTo(Sections, 1),
        divs \in ListsUpTo(DivTexts, 1) }
    \cup { Page("", "none", secs, <<>>) : secs \in ListsUpTo(Sections, MaxSections) }
    \cup { Page("", "none", <<>>, divs) : divs \in ListsUpTo(DivTexts, MaxDivs) }

\* div.get_text(strip=True) of a block of words.
RECURSIVE get_text(_)
get_text(words) ==
    IF words = <<>> THEN ""
    ELSE IF Len(words) = 1 THEN words[1]
    ELSE words[1] \o " " \o get_text(Tail(words))

\* '@' in email_text and '.' in email_text
has_at_and_dot(words) == \E i \in 1..Len(words) : words[i] \in {EmailPool[1], EmailPool[2]}

\* re.findall(r'[\w\.-]+@[\w\.-]+\.[a-zA-Z]{2,}', email_text): the addresses
\* among the words, in order.
findall_emails(words) == SelectSeq(words, LAMBDA w : w \in {EmailPool[1], EmailPool[2]})

\* The list after "lst.append(x)" without a membership test.
append_always(lst, x) == Append(lst, x)

\* "if x not in lst: lst.append(x)"
append_new(lst, x) ==
    IF \E i \in 1..Len(lst) : lst[i] = x THEN lst ELSE Append(lst, x)

\* append_new for every element of xs in turn.
RECURSIVE extend_new(_, _)
extend_new(lst, xs) ==
    IF xs = <<>> THEN lst ELSE extend_new(append_new(lst, Head(xs)), Tail(xs))

\* The email loop of api.py (lines 446-454) from block i on.
RECURSIVE api_emails(_, _, _)
api_emails(divs, i, emails) ==
    IF i > Len(divs) THEN emails
    ELSE api_emails(divs, i + 1,
                    IF has_at_and_dot(divs[i])
                       THEN extend_new(emails, findall_emails(divs[i]))
                       ELSE emails)

\* The email loop of scraper.py (lines 414-420) from block i on: the whole
\* text of a block that holds an address is taken as the email.
RECURSIVE scraper_emails(_, _, _)
scraper_emails(divs, i, emails) ==
    IF i > Len(divs) THEN emails
    ELSE scraper_emails(divs, i + 1,
                        IF has_at_and_dot(divs[i])
                           THEN append_new(emails, get_text(divs[i]))
                           ELSE emails)

\* The phone dict of api.py (lines 415-441) for a block.
phone_data(s) ==
    [number |-> s.number,
     type |-> CASE s.caption = "landline" -> "Landline"
                [] s.caption = "primary"  -> "Wireless"
                [] OTHER                  -> "Unknown",
     last_reported |-> CASE s.caption = "landline" -> "Last reported Mar 2019"
                         [] s.caption = "primary"  -> "Last reported Jan 2020"
                         [] OTHER                  -> "",
     provider |-> ""]

\* The phone loop of api.py (lines 408-443) from block i on: every block with
\* a link and a telephone span appends its dict.
RECURSIVE api_phones_of(_, _, _)
api_phones_of(secs, i, phones) ==
    IF i > Len(secs) THEN phones
    ELSE api_phones_of(secs, i + 1,
                       IF secs[i].link /\ secs[i].number # ""
                          THEN Append(phones, phone_data(secs[i]))
                          ELSE phones)

\* The local variable phone of extract_profile_info before its first
\* assignment.
Unbound == "unbound"

\* lst.remove(x); lst.insert(0, x) for an x of lst.
move_to_front(lst, x) == <<x>> \o SelectSeq(lst, LAMBDA y : y # x)

\* The phone loop of scraper.py (lines 394-411) from block i on, with the
\* local variable phone as the blocks before left it.  A block with the link
\* and a caption "Possible Primary Phone" moves phone to the front: the number
\* of this block, or without a telephone span the number an earlier block
\* left in phone, or none at all (UnboundLocalError).
RECURSIVE scraper_phones(_, _, _, _)
scraper_phones(secs, i, phones, phone) ==
    IF i > Len(secs) THEN [raised |-> "none", phone_numbers |-> phones]
    ELSE IF ~secs[i].link THEN scraper_phones(secs, i + 1, phones, phone)
    ELSE LET span == secs[i].number # ""
             phone1 == IF span THEN secs[i].number ELSE phone
             phones1 == IF span THEN append_new(phones, phone1) ELSE phones
         IN  IF secs[i].caption # "primary"
                THEN scraper_phones(secs, i + 1, phones1, phone1)
             ELSE IF phone1 = Unbound
                THEN [raised |-> "UnboundLocalError", phone_numbers |-> phones1]
             ELSE IF ~\E k \in 1..Len(phones1) : phones1[k] = phone1
                THEN [raised |-> "ValueError", phone_numbers |-> phones1]
             ELSE scraper_phones(secs, i + 1, move_to_front(phones1, phone1), phone1)

\* _extract_profile_info of api.py on a loaded page (lines 343-456).
api_extract_profile_info(page) ==
    LET name == header_fields(page.header)
        addr == address_fields(page.address)
    IN  [raised |-> "none",
         info |-> [first_name |-> name.first_name, last_name |-> name.last_name,
                   age |-> name.age, lives_in |-> addr.lives_in,
                   street_address |-> addr.street_address,
                   address_locality |-> addr.address_locality,
                   address_region |-> addr.address_region,
                   postal_code |-> addr.postal_code,
                   country_name |-> addr.country_name,
                   emails |-> api_emails(page.divs, 1, <<>>),
                   phones |-> api_phones_of(page.sections, 1, <<>>)]]

\* extract_profile_info of scraper.py on a loaded page (lines 386-422):
\* current_address is never assigned; an exception of the phone loop leaves
\* the function before the emails are read.
extract_profile_info(page) ==
    LET ph == scraper_phones(page.sections, 1, <<>>, Unbound)
    IN  [raised |-> ph.raised,
         info |-> [current_address |-> None,
                   phone_numbers |-> ph.phone_numbers,
                   emails |-> IF ph.raised = "none"
                                 THEN scraper_emails(page.divs, 1, <<>>) ELSE <<>>]]

\* self._extract_profile_info(person_link) of api.py once the page is loaded.
fn_api_extract_profile_info ==
    /\ fcall = "none"
    /\ \E page \in Pages :
          /\ farg' = page
          /\ fval' = api_extract_profile_info(page)
    /\ fcall' = "api_extract_profile_info"
    /\ UNCHANGED <<batchVars, apiVars>>

\* scraper.extract_profile_info(profile_url) of scraper.py once the page is
\* loaded.
fn_extract_profile_info ==
    /\ fcall = "none"
    /\ \E page \in Pages :
          /\ farg' = page
          /\ fval' = extract_profile_info(page)
    /\ fcall' = "extract_profile_info"
    /\ UNCHANGED <<batchVars, apiVars>>

\* ========================================================== specification
Init ==
    /\ mpc = "read"
    /\ owners = <<>>
    /\ batch_size \in 1..MaxBatchSize
    /\ done = 0
    /\ cur = NoResult
    /\ results = <<>>
    /\ partialOut = <<>>
    /\ finalOut = <<>>
    /\ finalWrites = 0
    /\ pending = "none"
    /\ fate = <<>>
    /\ raisedAt = {}
    /\ fetchFailedAt = {}
    /\ batchSleeps = 0
    /\ destroys = 0
    /\ spc = "idle" /\ stry = 0 /\ addrOk = FALSE /\ locOk = FALSE
    /\ clicked = FALSE /\ sret = "-" /\ swhy = "-"
    /\ swait = "-" /\ swaited = 0
    /\ fpc = "idle" /\ attempt = 0 /\ fret = "-" /\ navs = 0 /\ failed = 0
    /\ prevFail = "none" /\ backedOff = FALSE /\ rebuilt = FALSE
    /\ cfWaited = 0 /\ cfRetry = 0 /\ cfChecks = 0 /\ cfAll = TRUE
    /\ bpc = "idle" /\ battempt = 0 /\ localDriver = "unbound"
    /\ btries = 0 /\ bfails = 0 /\ bopen = 0 /\ berr = "none"
    /\ driver = "unset"
    /\ slept = NoSleep
    /\ api_init
    /\ fcall = "none" /\ farg = <<>> /\ fval = <<>>

Next ==
    \/ setup_driver
    \/ make_request
    \/ search_by_address
    \/ main

Spec == Init /\ [][Next]_vars

\* The program is one thread and every step of it is a call that returns,
\* raises or times out (sleeps, waits with a timeout, commands under the
\* page-load and HTTP timeouts): a step that can be taken is taken.
FairSpec == Spec /\ WF_vars(Next)

\* The search service alone: the process started as "python api.py".
ApiNext == api

ApiSpec == Init /\ [][ApiNext]_vars

\* One call of one of the computing functions.
FnNext ==
    \/ fn_to_dict
    \/ fn_search_by_name
    \/ fn_api_extract_profile_info
    \/ fn_extract_profile_info

FnSpec == Init /\ [][FnNext]_vars

\* ================================================================= claims
FetchRunning == fpc \notin {"idle", "returned", "raised"}

\* C1: _make_request returns a value (markup or None) to its caller for every
\* pattern of browser failures, a failed rebuild of the session included: no
\* exception leaves it.
C1_NeverRaises == fpc # "raised"

\* C2: every navigation of _make_request, in the first attempt and in every
\* retry, is issued right after a pacing delay drawn from [min_delay,
\* max_delay]: neither the error backoff nor a session rebuild stands in for it.
C2_PacedNavigation ==
    [][navs' > navs =>
          /\ slept.kind = "pace"
          /\ slept.secs >= min_delay
          /\ slept.secs <= max_delay]_vars

\* A retry that follows an error backoff and a session rebuild has slept its
\* pacing delay and is about to navigate.
C2_Witness ==
    /\ fpc = "get"
    /\ attempt > 0
    /\ prevFail = "exception"
    /\ backedOff
    /\ rebuilt
    /\ slept.kind = "pace"

\* C3: a call of _make_request ends, it issues at most max_retries
\* navigations, and when max_retries attempts have failed it has returned None
\* and attempts nothing more.
C3_BoundedAttempts ==
    /\ navs <= max_retries
    /\ failed <= max_retries
    /\ failed = max_retries => fpc = "returned" /\ fret = "None"

C3_Terminates == []C3_BoundedAttempts /\ (FetchRunning ~> ~FetchRunning)

\* All max_retries attempts were made and failed, and the call returned None.
C3_Witness ==
    /\ fpc = "returned"
    /\ fret = "None"
    /\ failed = max_retries
    /\ navs = max_retries

\* C4 as stated: whenever an attempt failed (in the navigation, the page-ready
\* wait or the challenge handling) and another attempt follows, the error
\* backoff was slept and the session was replaced before the next navigation.
C4_RebuildAfterAnyFailure ==
    (fpc = "get" /\ prevFail # "none") => (backedOff /\ rebuilt)

\* C4 amended: whenever an attempt failed with an exception other than a
\* TimeoutException of the page-ready wait or the challenge checks and another
\* attempt follows, the engine slept (attempt * 3) + random(1,3) seconds
\* (attempt counted from 1), quit the session and built a new one before the
\* next navigation, which runs on the new session; after such a
\* TimeoutException the next attempt follows on the same session with the
\* pacing delay alone.
C4_RebuildAfterException ==
    /\ slept.kind = "backoff" =>
          /\ fpc = "quit"
          /\ \E r \in 1..3 : slept.secs = (attempt + 1) * 3 + r
    /\ (fpc = "get" /\ prevFail = "exception") =>
          (backedOff /\ rebuilt /\ driver = "live")
    /\ (fpc = "get" /\ prevFail = "timeout") => (~backedOff /\ ~rebuilt)

\* The second retry is about to navigate on a session rebuilt after the
\* second attempt raised.
C4_Witness ==
    /\ fpc = "get"
    /\ attempt = 2
    /\ prevFail = "exception"
    /\ rebuilt
    /\ driver = "live"

\* C5: when every read of the URL in an attempt indicates a challenge, the
\* attempt sleeps 5 s once and then polls at most 6 times 5 s apart (35 s of
\* challenge waiting, never more), and _make_request returns None: no markup
\* is returned for that attempt.
C5_ChallengeTimeout ==
    /\ cfWaited <= 35
    /\ cfRetry <= 6
    /\ (cfAll /\ cfChecks > 0) =>
          fpc \in {"cf_sleep", "cf_poll", "cf_verify", "returned"}
    /\ (cfAll /\ cfChecks > 0 /\ fpc = "returned") =>
          /\ fret = "None"
          /\ cfWaited = 35
          /\ cfRetry = 6
          /\ cfChecks = 8

\* The challenge never cleared and the call has returned.
C5_Witness ==
    /\ fpc = "returned"
    /\ cfAll
    /\ cfChecks = 8
    /\ cfWaited = 35

\* C6 as stated: a build makes at most 3 construction attempts, sleeps
\* attempt * 2 seconds after a failed attempt that another follows, returns
\* at once on success, and raises to its caller exactly when the third
\* attempt failed.
C6_RaisesIffThirdFails ==
    /\ btries <= 3
    /\ slept.kind = "build" => slept.secs = 2 * bfails
    /\ bpc = "returned" => btries = bfails + 1
    /\ bpc = "raised" <=> bfails = 3

\* C6 amended: a build makes at most 3 construction attempts, sleeps
\* attempt * 2 seconds (2 s, then 4 s) after each failed attempt that another
\* follows, returns at once on success, and raises to its caller exactly when
\* the third attempt failed or when the preparation before the first attempt
\* (environment values, options, driver-manager install) raised, in which
\* case no construction attempt is made.
C6_BuildRetries ==
    /\ btries <= 3
    /\ slept.kind = "build" =>
          /\ bfails \in {1, 2}
          /\ slept.secs = 2 * bfails
          /\ bpc = "construct"
    /\ bpc = "returned" => (btries = bfails + 1 /\ localDriver = "live")
    /\ bpc = "raised" <=> (bfails = 3 \/ berr = "prepare")
    /\ berr = "prepare" => btries = 0
    /\ berr = "attempts" <=> bfails = 3

\* The third construction attempt failed and the build raised.
C6_Witness ==
    /\ bpc = "raised"
    /\ berr = "attempts"
    /\ btries = 3
    /\ bfails = 3

\* C7: when a build ends, no session it constructed is left open except the
\* one it returns: every failed attempt, whichever it is, released its
\* half-built session.
C7_NoHalfBuiltSession ==
    /\ bpc = "returned" => bopen = 1
    /\ bpc = "raised" => bopen = 0

\* C8: when main ends after the session was created, on whatever path, the
\* session has been quit.
C8_TornDownAtExit ==
    (MainEnded /\ driver # "unset") => driver = "quit"

\* C9: an exception raised while one owner is searched or extracted is caught
\* at that owner and stored as its error, and the loop goes on: the loop ends
\* only when every owner was processed (or on a KeyboardInterrupt).
C9_ExceptionStaysAtRecord ==
    /\ done = Len(results)
    /\ \A i \in raisedAt :
          IF i <= done
             THEN results[i].owner = i /\ results[i].error = "exception"
             ELSE \/ mpc = "except" /\ cur.owner = i
                  \/ LoopLeft
    /\ (mpc = "finally" /\ pending # "interrupt") => done = Len(owners)

\* The first owner raised, and the run went on to process every owner.
C9_Witness ==
    /\ mpc = "finally"
    /\ pending = "none"
    /\ 1 \in raisedAt
    /\ Len(owners) >= 2
    /\ done = Len(owners)

\* C10: after a run that processed all its input, the output holds exactly
\* one row per owner, and the row of every owner that failed or was not found
\* carries the owner and a non-empty error.
C10_OneOutcomePerOwner ==
    (mpc = "cleanup" /\ pending = "none" /\ done = Len(owners) /\ done > 0) =>
        /\ Len(finalOut) = Len(owners)
        /\ \A i \in 1..Len(owners) :
              /\ Cardinality({k \in 1..Len(finalOut) : finalOut[k].owner = i}) = 1
              /\ \A k \in 1..Len(finalOut) :
                    (finalOut[k].owner = i /\ fate[i] \in {"Failed", "NotFound"}) =>
                        finalOut[k].error \notin {None, ""}

\* C11: every outcome in main's results whose profile fetch returned None
\* (retries exhausted or the challenge never cleared) carries a non-empty
\* error.
C11_FetchFailureHasError ==
    \A i \in 1..Len(results) :
        results[i].owner \in fetchFailedAt => results[i].error \notin {None, ""}

\* C12: an owner whose search page loaded and held no matching card (fate
\* "NotFound") is recorded with no error set.
C12_NotFoundIsNoError ==
    \A i \in 1..Len(results) :
        fate[results[i].owner] = "NotFound" => results[i].error = None

\* C13: once the outcome of an owner that succeeded (fate "Extracted") is the
\* last one appended to results, the partial output as last written holds one
\* row for every outcome of results, that owner's included; so it does for the
\* first owner of the run.
C13_PartialAfterSuccess ==
    (results # <<>> /\ fate[results[Len(results)].owner] = "Extracted") =>
        /\ Len(partialOut) = Len(results)
        /\ \A i \in 1..Len(results) :
              \E k \in 1..Len(partialOut) : partialOut[k] = Row(results[i])

\* C14: at every moment of the run at most one outcome already appended to
\* results (the latest record) is missing from the partial output as last
\* written: a crash loses at most one record.
C14_PartialLosesAtMostOne ==
    Cardinality({ i \in 1..Len(results) :
                    ~ \E k \in 1..Len(partialOut) : partialOut[k] = Row(results[i]) }) <= 1

\* The rows of out are the outcomes of results, one row each.
C15_Holds(out) ==
    /\ Len(out) = Len(results)
    /\ \A i \in 1..Len(results) : \E k \in 1..Len(out) : out[k] = Row(results[i])

C16_Sorted(out) ==
    \A i \in 1..(Len(out) - 1) : out[i].row_index <= out[i + 1].row_index

\* C16: the partial output and the final output, whenever written, have their
\* rows in non-decreasing Row Index order, whatever the fates of the owners.
C16_OutputsSorted == C16_Sorted(partialOut) /\ C16_Sorted(finalOut)

\* Both outputs were written, the final one with two owners of different
\* input rows, one of them failed or not found.
C16_Witness ==
    /\ Len(finalOut) = 2
    /\ finalOut[1].row_index < finalOut[2].row_index
    /\ Len(partialOut) = 1
    /\ \E i \in 1..2 : fate[i] \in {"Failed", "NotFound"}

\* The terminal states of an owner (Succeeded is "Extracted").
C17_Terminal == {"Extracted", "NotFound", "Failed"}

\* Owner i is terminal when its outcome was appended (i <= done); an owner
\* past done that has left "Pending" is in progress.
C17_States ==
    /\ Len(results) = done
    /\ \A i \in 1..Len(owners) :
          IF i <= done
             THEN fate[i] \in C17_Terminal /\ results[i].owner = i
             ELSE fate[i] \in {"Pending", "InProgress"} \cup C17_Terminal
    /\ Cardinality({ i \in 1..Len(owners) : i > done /\ fate[i] # "Pending" }) <= 1

C17_Step ==
    \A i \in 1..Len(owners) :
        /\ (fate[i] = "Pending" /\ fate'[i] # "Pending") =>
              (fate'[i] = "InProgress" /\ i > done')
        /\ fate[i] # "Pending" => fate'[i] # "Pending"
        /\ (i > done /\ i <= done') => fate[i] # "Pending"
        /\ i <= done =>
              /\ done' >= done
              /\ results'[i] = results[i]
              /\ fate'[i] = fate[i]

\* C17: every owner goes from Pending to InProgress and from there to one
\* terminal state, at most one owner is in progress at a time, and an outcome
\* appended to results, with its terminal state, never changes afterwards.
C17_RecordLifecycle == []C17_States /\ [][C17_Step]_vars

\* Two owners are terminal in different states while the run is past its loop.
C17_Witness ==
    /\ done = 2
    /\ fate[1] = "NotFound"
    /\ fate[2] = "Extracted"
    /\ results[1].error # results[2].error
    /\ mpc = "finally"

\* No owner was started: no fetch was called in the run so far.
C18_NotStarted ==
    /\ \A i \in 1..Len(owners) : fate[i] = "Pending"
    /\ fpc = "idle"

\* C18 as stated: a run that ended through a failure before any owner was
\* started ended in the input-parsing failure, where main returns: no
\* exception leaves main before the first owner is fetched.
C18_OnlyParsingAborts ==
    (MainEnded /\ C18_NotStarted /\ pending = "none") => mpc = "returned"

C18_EarlyEnds ==
    (MainEnded /\ C18_NotStarted /\ pending # "interrupt") =>
        \/ mpc = "returned" /\ driver = "unset" /\ owners = <<>>
        \/ mpc = "raised" /\ driver = "unset"
        \/ mpc = "returned" /\ driver = "quit" /\ owners = <<>>

C18_ParsingFailure ==
    (mpc = "read" /\ mpc' = "returned") =>
        (bpc' = "idle" /\ fpc' = "idle" /\ driver' = "unset" /\ navs' = 0)

\* C18 amended: the failures that end a run before the first owner is fetched
\* are the input-parsing failure (main returns; no session build is started and
\* no navigation is issued, then or later) and the failure to build the
\* session in the scraper's constructor (the exception leaves main, no session
\* is held); apart from them a run ends before any fetch only on an empty
\* input or on an interruption.
C18_EarlyAborts ==
    /\ []C18_EarlyEnds
    /\ [][C18_ParsingFailure]_vars
    /\ []((mpc \in {"returned", "exited"} /\ driver = "unset") =>
             (bpc = "idle" /\ fpc = "idle"))

\* The session build failed for a non-empty input: main raised before any
\* owner was started.
C18_Witness ==
    /\ mpc = "raised"
    /\ driver = "unset"
    /\ Len(owners) > 0
    /\ C18_NotStarted
    /\ pending = "none"

\* C19: at most one TruePeopleSearchAPI instance is ever constructed by the
\* service, and at most one handler thread at a time is inside _make_request
\* on its session.
C19_OneFetchAtATime ==
    /\ instances <= 1
    /\ Cardinality({ h \in Handlers : ApiFetching(h) }) <= 1

\* Every optional field of record r is absent.
C20_Bare(r) ==
    /\ r.first_name = None /\ r.last_name = None /\ r.age = None
    /\ r.lives_in = None /\ r.street_address = None
    /\ r.address_locality = None /\ r.address_region = None
    /\ r.postal_code = None /\ r.country_name = None /\ r.person_link = None
    /\ r.emails = <<>> /\ r.phones = <<>>

\* C20: in every list search_by_name returns, a record whose error is set has
\* every optional field absent (names, age, lives-in, address fields, county,
\* person link None; emails and phones empty), and a record built from a
\* profile has no error.
C20_ErrorMeansBare ==
    \A h \in Handlers : \A k \in 1..Len(hret[h]) :
        /\ hret[h][k].error # None => C20_Bare(hret[h][k])
        /\ hret[h][k].person_link # None => hret[h][k].error = None

\* One handler returned the failure marker after its profile fetches gave
\* nothing, another returned an extracted record.
C20_Witness ==
    \E h, g \in Handlers :
        /\ Len(hret[h]) = 1
        /\ hret[h][1].error = "No valid results could be processed"
        /\ Len(hret[g]) >= 1
        /\ hret[g][1].error = None
        /\ hret[g][1].first_name # None

\* C21: a request that holds query lists for the search types name, address
\* and phone gets, unless the session or a fetch raised, a response that holds
\* for every type present a list of flattened records with at least one
\* record for every query string of that type.
C21_EveryTypeAnswered ==
    \A h \in Handlers :
        (hpc[h] \in {"done", "failed"} /\ herr[h] \notin {"session", "fetch"}) =>
            /\ hpc[h] = "done"
            /\ hdata[h].name > 0 =>
                  /\ "name_results" \in hbody[h].keys
                  /\ Len(hbody[h].name_results) >= hdata[h].name
                  /\ \E i \in 1..Len(hbody[h].name_results) :
                        hbody[h].name_results[i]["Input Given"] = "q"
            /\ hdata[h].street_citystatezip > 0 => "address_results" \in hbody[h].keys
            /\ hdata[h].phone_number > 0 => "phone_results" \in hbody[h].keys

\* C22: for every record, with 0, 1..5 or more than 5 emails and phones, the
\* flattened form has exactly the twelve scalar columns and the slots
\* Email 1..5 and Phone 1..5 with their Type, Last Reported and Provider
\* slots; slot i holds the i-th email or phone for i up to min(count, 5) and
\* every other slot is the empty string.
C22_FixedSlots ==
    fcall = "to_dict" =>
        LET r == farg
            d == fval
            n == Len(r.emails)
            m == Len(r.phones)
        IN  /\ DOMAIN d =
                  {"Search Option", "Input Given", "First Name", "Last Name", "Age",
                   "Lives in", "Street Address", "Address Locality", "Address Region",
                   "Postal Code", "Country Name", "Person Link",
                   "Email 1", "Email 2", "Email 3", "Email 4", "Email 5"}
                  \cup UNION { {"Phone " \o k, "Phone " \o k \o " Type",
                                "Phone " \o k \o " Last Reported",
                                "Phone " \o k \o " Provider"} :
                               k \in {"1", "2", "3", "4", "5"} }
            /\ \A i \in 1..5 :
                  LET k == <<"1", "2", "3", "4", "5">>[i]
                  IN  /\ d["Email " \o k] = IF i <= n THEN r.emails[i] ELSE ""
                      /\ d["Phone " \o k] = IF i <= m THEN r.phones[i].number ELSE ""
                      /\ d["Phone " \o k \o " Type"] =
                            IF i <= m THEN r.phones[i].type ELSE ""
                      /\ d["Phone " \o k \o " Last Reported"] =
                            IF i <= m THEN r.phones[i].last_reported ELSE ""
                      /\ d["Phone " \o k \o " Provider"] =
                            IF i <= m THEN r.phones[i].provider ELSE ""

\* A record with more than five emails and two phones was flattened: the fifth
\* email slot is taken, the third phone slot is empty.
C22_Witness ==
    /\ fcall = "to_dict"
    /\ Len(farg.emails) > 5
    /\ Len(farg.phones) = 2
    /\ fval["Email 5"] = "e@y.com"
    /\ fval["Phone 2"] = "555-0101"
    /\ fval["Phone 3"] = ""

\* C23: for every phone query the service has handled, the search request
\* built for it is the /resultphone URL whose phoneno is the query with every
\* non-digit character removed, the digits in order.
C23_PhoneRequestDigits ==
    \A h \in Handlers :
        (hdata[h].phone_number > 0 /\ hpc[h] \in {"done", "failed"}) =>
            hurl[h] = Url("/resultphone", clean_phone(hphone[h]), NoStr)

\* C24: when the name of a name query contains ";" and an explicit locality is
\* given as well, the request carries the explicit locality, and its primary
\* is the text before the first ";".
C24_ExplicitLocalityWins ==
    (fcall = "search_by_name" /\ Contains(farg.name, ";") /\ Truthy(farg.city_state)) =>
        /\ fval.citystatezip = Str(quote_plus(farg.city_state[1]))
        /\ fval.arg = quote_plus(strip(split_once(farg.name, ";")[1]))

\* Text t is text s without the spaces at its ends.
C25_Trimmed(s, t) ==
    /\ t = <<>> \/ (t[1] # " " /\ t[Len(t)] # " ")
    /\ \E a, b \in 0..Len(s) :
          /\ a + Len(t) + b = Len(s)
          /\ \A i \in 1..Len(s) :
                s[i] = IF i <= a \/ i > a + Len(t) THEN " " ELSE t[i - a]

\* The texts cut from s.
C25_Cuts(s) == { SubSeq(s, a, b) : a \in 1..(Len(s) + 1), b \in 0..Len(s) }

\* C25: for a name "<name>; <city, state>" with no explicit locality, the
\* request's primary is the trimmed text before the first ";" and its
\* locality the trimmed text after it (no locality parameter when that text
\* is empty).
C25_SplitAndTrim ==
    (fcall = "search_by_name" /\ ~Truthy(farg.city_state)) =>
        \A i \in 1..Len(farg.name) :
            (farg.name[i] = ";" /\ \A k \in 1..(i - 1) : farg.name[k] # ";") =>
                \E p \in C25_Cuts(farg.name), l \in C25_Cuts(farg.name) :
                    /\ C25_Trimmed(SubSeq(farg.name, 1, i - 1), p)
                    /\ C25_Trimmed(SubSeq(farg.name, i + 1, Len(farg.name)), l)
                    /\ fval.path = "/results"
                    /\ fval.arg = quote_plus(p)
                    /\ fval.citystatezip = IF l = <<>> THEN NoStr ELSE Str(quote_plus(l))

\* "Jane Doe; Springfield, IL" with no explicit locality gave the request
\* name=Jane+Doe, citystatezip=Springfield%2C+IL.
C25_Witness ==
    /\ fcall = "search_by_name"
    /\ farg = [name |-> ExampleName, city_state |-> NoStr]
    /\ fval.arg = <<"J", "a", "n", "e", "+", "D", "o", "e">>
    /\ fval.citystatezip =
          Str(<<"S", "p", "r", "i", "n", "g", "f", "i", "e", "l", "d", "%", "2", "C",
                "+", "I", "L">>)

\* The records of list l that were built from a card (they carry its link).
C26_Entries(l) == SelectSeq(l, LAMBDA r : r.person_link # None)

\* The entries of list l follow the document order of their cards.
C26_InOrder(l) ==
    \A i, j \in 1..Len(l) :
        i < j => \E a, b \in 1..(MaxCards + 1) :
                    /\ a < b
                    /\ l[i].person_link = PersonLink(a)
                    /\ l[j].person_link = PersonLink(b)

\* C26: the listing loop of search_by_name never holds, and search_by_name
\* never returns, more than max_results entries, however many cards the page
\* has; a card without a detail link gives no entry and no error, and the
\* entries keep the document order of their cards.
C26_AtMostMaxInOrder ==
    \A h \in Handlers :
        /\ Len(hres[h]) <= hmax[h]
        /\ Len(C26_Entries(hret[h])) <= hmax[h]
        /\ C26_InOrder(hres[h]) /\ C26_InOrder(C26_Entries(hret[h]))
        /\ \A c \in 1..Len(hcards[h]) :
              hcards[h][c] = "nolink" =>
                 /\ \A i \in 1..Len(hres[h]) : hres[h][i].person_link # PersonLink(c)
                 /\ (hpc[h] = "cards" /\ hi[h] > c) => herr[h] = "none"

\* One handler, given max_results 1, took one entry from a page of two cards;
\* another skipped a card without a link and took the card after it.
C26_Witness ==
    \E h, g \in Handlers :
        /\ hmax[h] = 1 /\ Len(hcards[h]) = 2 /\ hi[h] = 2 /\ hpc[h] = "cards"
        /\ Len(hres[h]) = 1
        /\ hmax[g] = 2 /\ hcards[g] = <<"nolink", "link">> /\ hi[g] = 3
        /\ Len(hres[g]) = 1 /\ hres[g][1].person_link = PersonLink(2)

\* The numbers of the phone list a profile extraction returned.
C27_Numbers ==
    IF fcall = "api_extract_profile_info"
       THEN [i \in 1..Len(fval.info.phones) |-> fval.info.phones[i].number]
       ELSE fval.info.phone_numbers

\* The blocks of list secs that hold a phone: the link and its telephone span.
C27_PhoneBlocks(secs) == SelectSeq(secs, LAMBDA s : s.link /\ s.number # "")

\* C27: on a page whose phone blocks hold different numbers and at most one
\* block is marked "possible primary", the phone list of a profile extraction
\* that returned starts with the phone of the marked block, and the other
\* phones follow in scan order (all phones in scan order when no phone is
\* marked).
C27_PrimaryFirst ==
    (/\ fcall \in {"api_extract_profile_info", "extract_profile_info"}
     /\ fval.raised = "none"
     /\ Cardinality({ i \in 1..Len(farg.sections) : farg.sections[i].caption = "primary" }) <= 1) =>
        LET blocks == C27_PhoneBlocks(farg.sections)
            scan == [i \in 1..Len(blocks) |-> blocks[i].number]
            marked == SelectSeq(blocks, LAMBDA s : s.caption = "primary")
        IN  (\A i, j \in 1..Len(scan) : i # j => scan[i] # scan[j]) =>
                C27_Numbers =
                    IF marked = <<>> THEN scan
                    ELSE <<marked[1].number>>
                         \o SelectSeq(scan, LAMBDA n : n # marked[1].number)

\* The email strings a profile extraction finds in the blocks from i on, in
\* the order of the markup: the addresses matched in each block (search
\* service), the text of each block that holds an address (batch scraper).
RECURSIVE C28_Found(_)
C28_Found(i) ==
    IF i > Len(farg.divs) THEN <<>>
    ELSE (IF ~has_at_and_dot(farg.divs[i]) THEN <<>>
          ELSE IF fcall = "api_extract_profile_info" THEN findall_emails(farg.divs[i])
          ELSE <<get_text(farg.divs[i])>>)
         \o C28_Found(i + 1)

\* The first place of x in list l.
C28_First(l, x) == CHOOSE i \in 1..Len(l) : l[i] = x /\ \A k \in 1..(i - 1) : l[k] # x

C29_AnyCombinationExtracts ==
    fcall \in {"api_extract_profile_info", "extract_profile_info"} =>
        LET blocks == C27_PhoneBlocks(farg.sections)
            info == fval.info
            hasEmail == \E i \in 1..Len(farg.divs) : has_at_and_dot(farg.divs[i])
        IN  /\ fval.raised = "none"
            /\ (info.emails # <<>>) <=> hasEmail
            /\ fcall = "api_extract_profile_info" =>
                  /\ (info.first_name # None) <=> (farg.header # "")
                  /\ (info.street_address # None) <=> (farg.address # "none")
                  /\ (info.country_name # None) <=> (farg.address = "county")
                  /\ Len(info.phones) = Len(blocks)
                  /\ \A i \in 1..Len(info.phones) :
                        /\ info.phones[i].number = blocks[i].number
                        /\ (info.phones[i].last_reported # "") <=> (blocks[i].caption # "none")
            /\ fcall = "extract_profile_info" =>
                  /\ (info.current_address # None) <=> (farg.address # "none")
                  /\ { info.phone_numbers[i] : i \in 1..Len(info.phone_numbers) }
                        = { blocks[i].number : i \in 1..Len(blocks) }

\* C30: the 15-30 s delay between batches is slept once after every batch that
\* another batch follows and never after the last one: while owner done + 1
\* is being processed main has slept done \div batch_size times, at the end of
\* a batch ceil(done / batch_size) - 1 times, and after a run over all n > 0
\* owners ceil(n / batch_size) - 1 times; every such sleep is of 15..30
\* seconds and stands before the first owner of a batch.
C30_SleepsBetweenBatches ==
    LET n == Len(owners)
        b == batch_size
        Batches(k) == (k + b - 1) \div b
    IN  /\ mpc \in {"owner", "search", "profile", "partial_save", "except"} =>
              batchSleeps = done \div b
        /\ mpc = "batch_end" => batchSleeps = Batches(done) - 1
        /\ (LoopLeft /\ done = n /\ n > 0) => batchSleeps = Batches(n) - 1
        /\ n = 0 => batchSleeps = 0
        /\ slept.kind = "batch" =>
              /\ slept.secs \in 15..30
              /\ mpc = "owner" /\ done > 0 /\ done < n /\ done % b = 0

\* A run over two owners in batches of one has ended: it slept once between
\* the batches.
C30_Witness ==
    /\ mpc = "returned"
    /\ Len(owners) = 2 /\ batch_size = 1 /\ done = 2
    /\ batchSleeps = 1

\* C31: the scraper's __del__ can be called any number of times, also when the
\* session was already quit or was never built, without raising: a call on a
\* live session releases it, a call on a session that is quit or unset leaves
\* it as it is, after the first call no later call changes anything, and the
\* only exception main ends with after the call is the one that was already
\* pending before it.
C31_DestroyIsSafe ==
    [][destroys' > destroys =>
          /\ driver = "live" => driver' = "quit"
          /\ driver # "live" => driver' = driver
          /\ destroys > 0 => driver' = driver
          /\ mpc' = "raised" => pending # "none"
          /\ UNCHANGED <<results, partialOut, finalOut, pending>>]_vars

\* __del__ ran twice (at the end of main and as the finalizer at exit) on a
\* session that the first call had quit.
C31_Witness ==
    /\ mpc = "exited"
    /\ destroys = 2
    /\ driver = "quit"

\* C32: a timeout of the 15 s page-ready wait (no URL was read yet in the
\* attempt) counts as one failed attempt of _make_request: the attempt has
\* used its navigation, the failure is counted, and unless the run is
\* interrupted the fetch goes to the next attempt while one remains and
\* returns None when the timed-out attempt was the last of max_retries.
C32_TimeoutIsFailedAttempt ==
    [][(fpc = "timeout" /\ cfChecks = 0 /\ pending' # "interrupt") =>
          /\ navs = attempt + 1
          /\ navs' = navs
          /\ failed' = failed + 1
          /\ IF attempt < max_retries - 1
                THEN /\ attempt' = attempt + 1
                     /\ fpc' = "delay"
                     /\ fret' = "-"
                ELSE /\ fpc' = "returned"
                     /\ fret' = "None"
                     /\ failed' = max_retries]_vars

\* The page-ready wait of the last attempt timed out after the two attempts
\* before it had failed.
C32_Witness ==
    /\ fpc = "timeout"
    /\ cfChecks = 0
    /\ attempt = max_retries - 1
    /\ failed = max_retries - 1

\* C33: a challenge timeout (every read of the URL in the attempt, the
\* verification after the polls included, indicated a challenge) ends
\* _make_request at once, on whichever attempt: it returns None, the value
\* returned when all attempts are exhausted, without another navigation,
\* without counting a failed attempt and without quitting or rebuilding the
\* session.
C33_ChallengeTimeoutEndsFetch ==
    [][(fpc = "cf_verify" /\ cfChecks' = cfChecks + 1 /\ cfAll') =>
          /\ fpc' = "returned"
          /\ fret' = "None"
          /\ navs = attempt + 1
          /\ navs' = navs
          /\ attempt' = attempt
          /\ failed' = failed
          /\ driver' = driver
          /\ bpc' = "idle"
          /\ ~rebuilt']_vars

\* The challenge of the first attempt never cleared: the fetch returned None
\* after one navigation, with two attempts left.
C33_Witness ==
    /\ fpc = "returned"
    /\ fret = "None"
    /\ cfAll
    /\ cfChecks = max_cf_retries + 2
    /\ attempt = 0
    /\ navs = 1
    /\ failed = 0

\* C34: when a call of _make_request has ended, with whatever result, the
\* session self.driver refers to is live, and no navigation is issued on a
\* session that was quit.
C34_SessionLiveAfterFetch ==
    /\ FetchEnded => driver = "live"
    /\ fpc = "get" => driver = "live"

\* C35: search_button.click() goes through only when the address field and
\* the city/state field were both read back equal to their intended values;
\* a field that still differs after its three typing tries keeps the search
\* from reaching the click.
C35_SubmitOnlyVerified ==
    (spc = "click" \/ clicked) => (addrOk /\ locOk)

C37_OneBoundedWait ==
    /\ swaited <= 15
    /\ spc = "wait_results" => swaited = 0

\* C37 amended: after the form is submitted the search waits up to three
\* times, at most 15 s each, for a results or no-results marker, pausing 2 s
\* after a wait that timed out when another follows: 49 s at most, after
\* which it reads the markup or returns None; it returns None for a timeout
\* only when the third wait timed out.
C37_ThreeBoundedWaits ==
    /\ swaited <= 49
    /\ spc = "wait_results" => (stry <= 2 /\ swaited = stry * 17)
    /\ (spc = "returned" /\ swait = "timeout" /\ swaited > 0) =>
          (swaited = 49 /\ stry = 2 /\ sret = "None")
    /\ (spc \in {"source", "match"}) => (swait = "ok" /\ swaited <= 34)

\* The third wait for the markers timed out and the search returned None
\* after 49 s of waiting.
C37_Witness ==
    /\ spc = "returned"
    /\ sret = "None"
    /\ swait = "timeout"
    /\ swaited = 49

\* C38: every outcome of the batch run that has an error set has no
\* current_address, no phone numbers and no emails, the outcome of an owner
\* whose partial-output write failed after its extraction included.
C38_ErrorMeansNoData ==
    \A i \in 1..Len(results) :
        results[i].error # None =>
            /\ results[i].current_address = None
            /\ results[i].phone_numbers = <<>>
            /\ results[i].emails = <<>>

\* C39: every list search_by_name returns is non-empty, and it is either
\* exactly one record with an error, or one or more records none of which has
\* an error: error records are never mixed with extracted records.
C39_ErrorRecordAlone ==
    \A h \in Handlers :
        /\ hpc[h] = "extend" => hret[h] # <<>>
        /\ hret[h] # <<>> =>
              \/ Len(hret[h]) = 1 /\ hret[h][1].error # None
              \/ \A k \in 1..Len(hret[h]) : hret[h][k].error = None

\* One handler, asked for no entry of a page that has cards, returned the
\* single error record; another returned two extracted records.
C39_Witness ==
    \E h, g \in Handlers :
        /\ hpc[h] = "extend"
        /\ hmax[h] = 0
        /\ Len(hret[h]) = 1
        /\ hret[h][1].error = "No valid results could be processed"
        /\ hpc[g] = "extend"
        /\ Len(hret[g]) = 2
        /\ hret[g][1].error = None
        /\ hret[g][2].error = None

====
